---- MODULE Spec2Model ----
(***************************************************************************)
(* A model of sqlittle's Database facade (header validation, the dirty     *)
(* flag, the page cache and the sqlite_master cache) over a file that      *)
(* other processes may rewrite between two operations.                     *)
(*                                                                         *)
(* Go's nil is the empty sequence <<>> for a pointer (a present value x is *)
(* <<x>>) and the string "nil" for an error.                               *)
(***************************************************************************)
EXTENDS Integers, Sequences, FiniteSets, TLC

VARIABLES
    fileHdr,      \* the first 100 bytes of the file, as the fields parseHeader reads
    fileData,     \* the file as a sequence of BlockSize-byte blocks
    journalFile,  \* the "<path>-journal" sidecar
    pager,        \* the filePager: "none" before OpenFile, then "open"
    db,           \* the Database struct
    ret           \* what the last call did and returned (observation only)

vars == <<fileHdr, fileData, journalFile, pager, db, ret>>

(***************************************************************************)
(* Bounds of the model                                                     *)
(***************************************************************************)
\* change_counter and schema_cookie values a writer may store: 0..MaxCounter
MaxCounter == 1
\* page numbers the operations are called with: 0..MaxPage
MaxPage == 2
\* the file holds at most MaxBlocks blocks
MaxBlocks == 2
\* sqlite_master tables of the input sets hold at most MaxRows rows
MaxRows == 2
\* the largest rowid, and the largest first column, of the scanned b-trees
MaxKey == 3

(***************************************************************************)
(* Program constants                                                       *)
(***************************************************************************)
headerMagic == "SQLite format 3\\x00"
CachePages == 100
\* the smallest page size; the file is modelled in blocks of this size
BlockSize == 512
MaxPageSize == 65536

(***************************************************************************)
(* The file header                                                         *)
(***************************************************************************)
\* bits.OnesCount(n)
RECURSIVE OnesCount(_)
OnesCount(n) == IF n = 0 THEN 0 ELSE (n % 2) + OnesCount(n \div 2)

isPower(n) == OnesCount(n) = 1

ZeroBytes == [i \in 1..20 |-> 0]

\* the zero value of the header struct
ZeroHeader == [PageSize |-> 0, ChangeCounter |-> 0, SchemaCookie |-> 0]

\* PageSizeOf with the raw value 1 taken as it stands
PageSizeOf_rawOne(raw) ==
    IF raw < BlockSize \/ raw > MaxPageSize \/ ~isPower(raw) THEN 0 ELSE raw

\* the page-size block of parseHeader: the size, or 0 when it is rejected
PageSizeOf(raw) ==
    LET s == IF raw = 1 THEN MaxPageSize ELSE raw
    IN  IF s < BlockSize \/ s > MaxPageSize \/ ~isPower(s) THEN 0 ELSE s

\* parseHeader with the reserved-space check moved before the read version
parseHeader_reservedFirst(hs) ==
    LET h0 == ZeroHeader
        h1 == [h0 EXCEPT !.PageSize = PageSizeOf(hs.PageSize)]
        h2 == [h1 EXCEPT !.ChangeCounter = hs.ChangeCounter,
                         !.SchemaCookie = hs.SchemaCookie]
    IN  IF hs.Magic # headerMagic THEN [h |-> h0, err |-> "ErrInvalidMagic"]
        ELSE IF PageSizeOf(hs.PageSize) = 0
             THEN [h |-> h0, err |-> "ErrInvalidPageSize"]
        ELSE IF hs.ReservedSpace # 0 THEN [h |-> h1, err |-> "ErrReservedSpace"]
        ELSE IF hs.ReadVersion = 2 THEN [h |-> h1, err |-> "ErrWAL"]
        ELSE IF hs.ReadVersion # 1 THEN [h |-> h1, err |-> "ErrIncompatible"]
        ELSE IF hs.MaxFraction # 64 \/ hs.MinFraction # 32 \/ hs.LeafFraction # 32
             THEN [h |-> h1, err |-> "ErrIncompatible"]
        ELSE IF hs.SchemaFormat \notin {2, 3, 4}
             THEN [h |-> h2, err |-> "ErrIncompatible"]
        ELSE IF hs.TextEncoding \in {2, 3} THEN [h |-> h2, err |-> "ErrEncoding"]
        ELSE IF hs.TextEncoding # 1 THEN [h |-> h2, err |-> "ErrIncompatible"]
        ELSE IF \E i \in 1..20 : hs.ReservedForExpansion[i] # 0
             THEN [h |-> h2, err |-> "ErrIncompatible"]
        ELSE [h |-> h2, err |-> "nil"]

\* parseHeader(b), b the decoded struct hs; returns [h, err]
parseHeader(hs) ==
    LET h0 == ZeroHeader
        h1 == [h0 EXCEPT !.PageSize = PageSizeOf(hs.PageSize)]
        h2 == [h1 EXCEPT !.ChangeCounter = hs.ChangeCounter,
                         !.SchemaCookie = hs.SchemaCookie]
    IN  IF hs.Magic # headerMagic THEN [h |-> h0, err |-> "ErrInvalidMagic"]
        ELSE IF PageSizeOf(hs.PageSize) = 0
             THEN [h |-> h0, err |-> "ErrInvalidPageSize"]
        ELSE IF hs.ReadVersion = 2 THEN [h |-> h1, err |-> "ErrWAL"]
        ELSE IF hs.ReadVersion # 1 THEN [h |-> h1, err |-> "ErrIncompatible"]
        ELSE IF hs.ReservedSpace # 0 THEN [h |-> h1, err |-> "ErrReservedSpace"]
        ELSE IF hs.MaxFraction # 64 \/ hs.MinFraction # 32 \/ hs.LeafFraction # 32
             THEN [h |-> h1, err |-> "ErrIncompatible"]
        ELSE IF hs.SchemaFormat \notin {2, 3, 4}
             THEN [h |-> h2, err |-> "ErrIncompatible"]
        ELSE IF hs.TextEncoding \in {2, 3} THEN [h |-> h2, err |-> "ErrEncoding"]
        ELSE IF hs.TextEncoding # 1 THEN [h |-> h2, err |-> "ErrIncompatible"]
        ELSE IF \E i \in 1..20 : hs.ReservedForExpansion[i] # 0
             THEN [h |-> h2, err |-> "ErrIncompatible"]
        ELSE [h |-> h2, err |-> "nil"]

\* a header every check accepts
GoodHeader(cc, cookie) ==
    [Magic |-> headerMagic, PageSize |-> BlockSize, ReadVersion |-> 1,
     ReservedSpace |-> 0, MaxFraction |-> 64, MinFraction |-> 32,
     LeafFraction |-> 32, ChangeCounter |-> cc, SchemaCookie |-> cookie,
     SchemaFormat |-> 4, TextEncoding |-> 1, ReservedForExpansion |-> ZeroBytes]

(***************************************************************************)
(* The pager and the sidecar                                               *)
(***************************************************************************)
\* pager.header(): the first 100 bytes, or an error when the file is shorter
filePager_header ==
    IF Len(fileData) = 0 THEN [buf |-> fileHdr, err |-> "EOF"]
    ELSE [buf |-> fileHdr, err |-> "nil"]

\* filePager.page(id, pagesize): pagesize bytes from offset (id-1)*pagesize.
\* The error is the one of the mapping's ReadAt: an offset past the end of the
\* mapping is refused, a region that starts inside it and ends past it is a
\* short read (io.EOF); no caller looks at the buffer returned with an error
filePager_page(id, pagesize) ==
    LET k == pagesize \div BlockSize
        off == (id - 1) * k
    IN  IF off > Len(fileData)
        THEN [buf |-> <<>>, err |-> "mmap: invalid ReadAt offset"]
        ELSE IF off + k > Len(fileData)
        THEN [buf |-> <<>>, err |-> "EOF"]
        ELSE [buf |-> SubSeq(fileData, off + 1, off + k), err |-> "nil"]

filePager_CheckReservedLock == [locked |-> FALSE, err |-> "nil"]

\* newFilePager that keeps the file open when the mapping fails
newFilePager_keepsFile(openErr, mmapErr) ==
    IF openErr # "nil"
    THEN [made |-> FALSE, f |-> "unopened", mm |-> "unopened", err |-> openErr]
    ELSE IF mmapErr # "nil"
    THEN [made |-> FALSE, f |-> "open", mm |-> "unopened", err |-> mmapErr]
    ELSE [made |-> TRUE, f |-> "open", mm |-> "open", err |-> "nil"]

\* newFilePager(file), given what os.Open and mmap.Open answer: whether a
\* pager is returned, the file handle and the mapping at return, the error
newFilePager(openErr, mmapErr) ==
    IF openErr # "nil"
    THEN [made |-> FALSE, f |-> "unopened", mm |-> "unopened", err |-> openErr]
    ELSE IF mmapErr # "nil"
    THEN [made |-> FALSE, f |-> "closed", mm |-> "unopened", err |-> mmapErr]
    ELSE [made |-> TRUE, f |-> "open", mm |-> "open", err |-> "nil"]

\* validJournal(path): judges the sidecar; [hot, err]
validJournal(j) ==
    IF ~j.exists THEN [hot |-> FALSE, err |-> "nil"]
    ELSE IF ~j.readable THEN [hot |-> FALSE, err |-> "EIO"]
    ELSE [hot |-> j.size >= 28 /\ j.magic /\ j.pageCount # 0, err |-> "nil"]

(***************************************************************************)
(* The page cache (LRU, most recently used first) and page decoding        *)
(***************************************************************************)
newBtreeCache == <<>>

CacheIndex(c, page) ==
    IF \E i \in 1..Len(c) : c[i].page = page
    THEN CHOOSE i \in 1..Len(c) : c[i].page = page
    ELSE 0

Without(c, i) == SubSeq(c, 1, i - 1) \o SubSeq(c, i + 1, Len(c))

\* btreeCache.get(page): [c, p]; a hit moves the entry to the front
btreeCache_get(c, page) ==
    LET i == CacheIndex(c, page)
    IN  IF i = 0 THEN [c |-> c, p |-> <<>>]
        ELSE [c |-> <<c[i]>> \o Without(c, i), p |-> <<c[i].p>>]

\* btreeCache.set(page, p): the least recently used entry leaves a full cache
btreeCache_set(c, page, p) ==
    LET i == CacheIndex(c, page)
        rest == IF i = 0 THEN c ELSE Without(c, i)
        all == <<[page |-> page, p |-> p]>> \o rest
    IN  IF Len(all) > CachePages THEN SubSeq(all, 1, CachePages) ELSE all

btreeCache_clear(c) == <<>>

\* newBtree(buf, isPage1): the page-type byte (at offset 100 on page 1, at
\* offset 0 elsewhere) decides the kind; [p, err]
newBtree(buf, isPage1) ==
    LET b == buf[1]
    IN  IF b.flag \in {13, 5}
        THEN [p |-> <<[kind |-> "table", flag |-> b.flag, cells |-> b.cells,
                       right |-> b.right]>>,
              err |-> "nil"]
        ELSE IF b.flag \in {10, 2}
        THEN [p |-> <<[kind |-> "index", flag |-> b.flag, cells |-> b.cells,
                       right |-> b.right]>>,
              err |-> "nil"]
        ELSE [p |-> <<>>, err |-> "ErrCorrupted"]

(***************************************************************************)
(* The Database                                                            *)
(***************************************************************************)
JournalPath == "file-journal"

NoDatabase ==
    [journal |-> "", dirty |-> FALSE, header |-> <<>>,
     btreeCache |-> <<>>, objectCache |-> <<>>]

\* what a resolveDirty call did: ran (dirty at entry), err, hdrRead (the pager
\* was asked for the header), prev/new (the stored and the parsed header),
\* and the caches before and right after it
NoResolve ==
    [ran |-> FALSE, err |-> "nil", hdrRead |-> FALSE, prev |-> <<>>,
     new |-> <<>>, cacheBefore |-> <<>>, cacheAfter |-> <<>>,
     objBefore |-> <<>>, objAfter |-> <<>>, dirtyAfter |-> FALSE]

ResolveInfo(d, d2, ran, err, hdrRead, new) ==
    [ran |-> ran, err |-> err, hdrRead |-> hdrRead, prev |-> d.header,
     new |-> new, cacheBefore |-> d.btreeCache, cacheAfter |-> d2.btreeCache,
     objBefore |-> d.objectCache, objAfter |-> d2.objectCache,
     dirtyAfter |-> d2.dirty]

\* hotGate with the reserved-lock test inverted
hotGate_lockedIsHot(j, lk) ==
    IF j.err # "nil" THEN j.err
    ELSE IF ~j.hot THEN "nil"
    ELSE IF lk.err # "nil" THEN lk.err
    ELSE IF lk.locked THEN "ErrHotJournal"
    ELSE "nil"

\* the journal gate of resolveDirty, given validJournal's and
\* CheckReservedLock's answers: the error it returns, or "nil"
hotGate(j, lk) ==
    IF j.err # "nil" THEN j.err
    ELSE IF ~j.hot THEN "nil"
    ELSE IF lk.err # "nil" THEN lk.err
    ELSE IF ~lk.locked THEN "ErrHotJournal"
    ELSE "nil"

journalGate(d) ==
    IF d.journal # "" THEN hotGate(validJournal(journalFile),
                                   filePager_CheckReservedLock)
    ELSE "nil"

\* applyHeader clearing the page cache on a schema_cookie delta
applyHeader_pagesOnCookie(d, newHeader) ==
    LET d1 == IF d.header # <<>>
                 /\ d.header[1].SchemaCookie # newHeader.SchemaCookie
              THEN [d EXCEPT !.btreeCache = btreeCache_clear(d.btreeCache)]
              ELSE d
        d2 == IF d.header # <<>>
                 /\ d.header[1].SchemaCookie # newHeader.SchemaCookie
              THEN [d1 EXCEPT !.objectCache = <<>>]
              ELSE d1
    IN  [d2 EXCEPT !.dirty = FALSE, !.header = <<newHeader>>]

\* applyHeader clearing the master cache on a change_counter delta
applyHeader_masterOnCounter(d, newHeader) ==
    LET d1 == IF d.header # <<>>
                 /\ d.header[1].ChangeCounter # newHeader.ChangeCounter
              THEN [d EXCEPT !.btreeCache = btreeCache_clear(d.btreeCache)]
              ELSE d
        d2 == IF d.header # <<>>
                 /\ d.header[1].ChangeCounter # newHeader.ChangeCounter
              THEN [d1 EXCEPT !.objectCache = <<>>]
              ELSE d1
    IN  [d2 EXCEPT !.dirty = FALSE, !.header = <<newHeader>>]

\* applyHeader that never clears the page cache
applyHeader_keepPages(d, newHeader) ==
    LET d2 == IF d.header # <<>>
                 /\ d.header[1].SchemaCookie # newHeader.SchemaCookie
              THEN [d EXCEPT !.objectCache = <<>>]
              ELSE d
    IN  [d2 EXCEPT !.dirty = FALSE, !.header = <<newHeader>>]

\* the end of resolveDirty: the caches are cleared on the header's deltas,
\* dirty is cleared and the new header stored
applyHeader(d, newHeader) ==
    LET d1 == IF d.header # <<>>
                 /\ d.header[1].ChangeCounter # newHeader.ChangeCounter
              THEN [d EXCEPT !.btreeCache = btreeCache_clear(d.btreeCache)]
              ELSE d
        d2 == IF d.header # <<>>
                 /\ d.header[1].SchemaCookie # newHeader.SchemaCookie
              THEN [d1 EXCEPT !.objectCache = <<>>]
              ELSE d1
    IN  [d2 EXCEPT !.dirty = FALSE, !.header = <<newHeader>>]

\* resolveDirty clearing dirty before its checks
resolveFail_dirtyCleared(d, err, hdrRead) ==
    [db |-> [d EXCEPT !.dirty = FALSE], err |-> err,
     rd |-> ResolveInfo(d, [d EXCEPT !.dirty = FALSE], TRUE, err, hdrRead, <<>>)]

\* an error return of resolveDirty: nothing was assigned
resolveFail(d, err, hdrRead) ==
    [db |-> d, err |-> err, rd |-> ResolveInfo(d, d, TRUE, err, hdrRead, <<>>)]

resolveDone(d, d3, newHeader) ==
    [db |-> d3, err |-> "nil",
     rd |-> ResolveInfo(d, d3, TRUE, "nil", TRUE, <<newHeader>>)]

\* resolveDirty from parseHeader's answer on
resolveParsed(d, ph) ==
    IF ph.err # "nil" THEN resolveFail(d, ph.err, TRUE)
    ELSE resolveDone(d, applyHeader(d, ph.h), ph.h)

\* resolveDirty from the pager's header() on
resolveHeader(d, hb) ==
    IF hb.err # "nil" THEN resolveFail(d, hb.err, TRUE)
    ELSE resolveParsed(d, parseHeader(hb.buf))

\* resolveDirty from the journal gate on
resolveGated(d, jerr) ==
    IF jerr # "nil" THEN resolveFail(d, jerr, FALSE)
    ELSE resolveHeader(d, filePager_header)

\* db.resolveDirty(): [db, err, rd]
resolveDirty(d) ==
    IF ~d.dirty
    THEN [db |-> d, err |-> "nil",
          rd |-> ResolveInfo(d, d, FALSE, "nil", FALSE, <<>>)]
    ELSE resolveGated(d, journalGate(d))

\* db.page(id): [buf, err, read]; read says the pager was asked
pageRead(r) == [buf |-> r.buf, err |-> r.err, read |-> TRUE]

Database_page(d, id) ==
    IF id < 1 THEN [buf |-> <<>>, err |-> "invalid page number", read |-> FALSE]
    ELSE pageRead(filePager_page(id, d.header[1].PageSize))

\* What openPage returns: [db, p, err, src, reads, dirtyAt, rd]
\* src: where the page came from; reads: the pages the pager was asked for;
\* dirtyAt: the dirty flag when the cache or the pager was consulted
PageResult(d, p, err, src, reads, dirtyAt, rd) ==
    [db |-> d, p |-> p, err |-> err, src |-> src, reads |-> reads,
     dirtyAt |-> dirtyAt, rd |-> rd]

ReadsOf(b, page) == IF b.read THEN <<page>> ELSE <<>>

\* what a failed decode leaves in p
NoBtree == [kind |-> "none", flag |-> 0, cells |-> <<>>, right |-> 0]

\* openPageDecoded storing the page whatever newBtree says
openPageDecoded_alwaysSet(r, b, nb, page) ==
    IF nb.err = "nil"
    THEN PageResult([r.db EXCEPT !.btreeCache =
                         btreeCache_set(r.db.btreeCache, page, nb.p[1])],
                    nb.p, "nil", "pager", ReadsOf(b, page), <<r.db.dirty>>, r.rd)
    ELSE PageResult([r.db EXCEPT !.btreeCache =
                         btreeCache_set(r.db.btreeCache, page, NoBtree)],
                    nb.p, nb.err, "none", ReadsOf(b, page),
                    <<r.db.dirty>>, r.rd)

\* openPage from newBtree's answer on: only a decoded page enters the cache
openPageDecoded(r, b, nb, page) ==
    IF nb.err = "nil"
    THEN PageResult([r.db EXCEPT !.btreeCache =
                         btreeCache_set(r.db.btreeCache, page, nb.p[1])],
                    nb.p, "nil", "pager", ReadsOf(b, page), <<r.db.dirty>>, r.rd)
    ELSE PageResult(r.db, nb.p, nb.err, "none", ReadsOf(b, page),
                    <<r.db.dirty>>, r.rd)

\* openPage from db.page's answer on
openPageRead(r, b, page) ==
    IF b.err # "nil"
    THEN PageResult(r.db, <<>>, b.err, "none", ReadsOf(b, page),
                    <<r.db.dirty>>, r.rd)
    ELSE openPageDecoded(r, b, newBtree(b.buf, page = 1), page)

\* openPage from the cache's answer on
openPageCached(r, g, page) ==
    IF g.p # <<>>
    THEN PageResult([r.db EXCEPT !.btreeCache = g.c], g.p, "nil", "cache",
                    <<>>, <<r.db.dirty>>, r.rd)
    ELSE openPageRead(r, Database_page(r.db, page), page)

\* openPage from resolveDirty's answer on
openPageResolved(r, page) ==
    IF r.err # "nil"
    THEN PageResult(r.db, <<>>, r.err, "none", <<>>, <<>>, r.rd)
    ELSE openPageCached(r, btreeCache_get(r.db.btreeCache, page), page)

\* openPage that goes to the cache without resolveDirty
openPage_unresolved(d, page) ==
    openPageResolved([db |-> d, err |-> "nil",
                      rd |-> ResolveInfo(d, d, FALSE, "nil", FALSE, <<>>)], page)

\* db.openPage(page)
openPage(d, page) == openPageResolved(resolveDirty(d), page)

\* the type assertion of openTable on openPage's answer
asTable(o) ==
    IF o.err # "nil" THEN [o EXCEPT !.p = <<>>]
    ELSE IF o.p[1].kind # "table"
    THEN [o EXCEPT !.p = <<>>, !.err = "found an index, expected a table"]
    ELSE o

\* db.openTable(page): openPage, then the page must be a table b-tree
openTable(d, page) == asTable(openPage(d, page))

\* the type assertion of openIndex on openPage's answer
asIndex(o) ==
    IF o.err # "nil" THEN [o EXCEPT !.p = <<>>]
    ELSE IF o.p[1].kind # "index"
    THEN [o EXCEPT !.p = <<>>, !.err = "found a table, expected an index"]
    ELSE o

\* db.openIndex(page): openPage, then the page must be an index b-tree
openIndex(d, page) == asIndex(openPage(d, page))

(***************************************************************************)
(* Records and sqlite_master                                               *)
(***************************************************************************)
\* the values parseRecord yields, by their Go type
StringVal(s) == [t |-> "string", s |-> s, n |-> 0]
Int64Val(n) == [t |-> "int64", s |-> "", n |-> n]
NilVal == [t |-> "nil", s |-> "", n |-> 0]
\* a value of a caller's Record that is of none of the types of a stored value
OtherVal == [t |-> "other", s |-> "", n |-> 0]

\* a cell: rowid is its key on a table page, ovf what reading its
\* overflow chain gives, ok says the assembled payload decodes, e is the record
\* left is the child page of a cell of an interior page
Cell(e) == [rowid |-> 0, left |-> 0, ovf |-> "nil", ok |-> TRUE, e |-> e]
CorruptCell == [rowid |-> 0, left |-> 0, ovf |-> "nil", ok |-> FALSE, e |-> <<>>]
\* a cell whose overflow chain leaves the file
TruncatedCell == [rowid |-> 0, left |-> 0, ovf |-> "EOF", ok |-> TRUE, e |-> <<>>]

\* addOverflow(db, pl): the assembled payload, or the error of the chain
addOverflow(c) == [c |-> c, err |-> c.ovf]

\* parseRecord on an assembled payload: [e, err]
parseRecord(c) ==
    IF c.ok THEN [e |-> c.e, err |-> "nil"] ELSE [e |-> <<>>, err |-> "ErrCorrupted"]

ZeroMaster == [typ |-> "", name |-> "", tblName |-> "", rootPage |-> 0, sql |-> ""]

\* masterRow without the test of the rootpage value's type
masterRow_rootAnyType(c) ==
    LET r == parseRecord(addOverflow(c).c)
        e == r.e
    IN  IF addOverflow(c).err # "nil"
        THEN [m |-> ZeroMaster, err |-> addOverflow(c).err]
        ELSE IF r.err # "nil" THEN [m |-> ZeroMaster, err |-> r.err]
        ELSE IF Len(e) # 5 THEN [m |-> ZeroMaster, err |-> "ErrInvalidDef"]
        ELSE IF e[1].t # "string" THEN [m |-> ZeroMaster, err |-> "ErrInvalidDef"]
        ELSE IF e[2].t # "string" THEN [m |-> ZeroMaster, err |-> "ErrInvalidDef"]
        ELSE IF e[3].t # "string" THEN [m |-> ZeroMaster, err |-> "ErrInvalidDef"]
        ELSE IF e[5].t # "string" THEN [m |-> ZeroMaster, err |-> "ErrInvalidDef"]
        ELSE [m |-> [typ |-> e[1].s, name |-> e[2].s, tblName |-> e[3].s,
                     rootPage |-> e[4].n, sql |-> e[5].s],
              err |-> "nil"]

\* the callback master() gives to Iter, on one row: [m, err]
masterRow(c) ==
    LET r == parseRecord(addOverflow(c).c)
        e == r.e
    IN  IF addOverflow(c).err # "nil"
        THEN [m |-> ZeroMaster, err |-> addOverflow(c).err]
        ELSE IF r.err # "nil" THEN [m |-> ZeroMaster, err |-> r.err]
        ELSE IF Len(e) # 5 THEN [m |-> ZeroMaster, err |-> "ErrInvalidDef"]
        ELSE IF e[1].t # "string" THEN [m |-> ZeroMaster, err |-> "ErrInvalidDef"]
        ELSE IF e[2].t # "string" THEN [m |-> ZeroMaster, err |-> "ErrInvalidDef"]
        ELSE IF e[3].t # "string" THEN [m |-> ZeroMaster, err |-> "ErrInvalidDef"]
        ELSE IF e[4].t # "int64" THEN [m |-> ZeroMaster, err |-> "ErrInvalidDef"]
        ELSE IF e[5].t # "string" THEN [m |-> ZeroMaster, err |-> "ErrInvalidDef"]
        ELSE [m |-> [typ |-> e[1].s, name |-> e[2].s, tblName |-> e[3].s,
                     rootPage |-> e[4].n, sql |-> e[5].s],
              err |-> "nil"]

\* Iter over the rows of the sqlite_master leaf with master()'s callback: the
\* objects appended so far and the first error, which ends the iteration
RECURSIVE masterIter(_, _, _)
masterIter(cells, i, objects) ==
    IF i > Len(cells) THEN [objects |-> objects, err |-> "nil"]
    ELSE LET r == masterRow(cells[i])
         IN  IF r.err # "nil" THEN [objects |-> objects, err |-> r.err]
             ELSE masterIter(cells, i + 1, Append(objects, r.m))

\* What master returns: [db, objects, err, src, reads, dirtyAt, rd]
\* src: "objectCache" when the cached result was returned, "iter" when the
\* rows of page 1 were iterated; reads: the pages the pager was asked for
MasterResult(d, objects, err, src, reads, dirtyAt, rd) ==
    [db |-> d, objects |-> objects, err |-> err, src |-> src, reads |-> reads,
     dirtyAt |-> dirtyAt, rd |-> rd]

\* masterRead storing the objects without the error
masterRead_noErr(t, it, rd) ==
    MasterResult([t.db EXCEPT !.objectCache =
                      <<[objects |-> it.objects, err |-> "nil"]>>],
                 it.objects, it.err, "iter", t.reads, t.dirtyAt, rd)

\* master from Iter's answer on: objects and error are both stored
masterRead(t, it, rd) ==
    MasterResult([t.db EXCEPT !.objectCache =
                      <<[objects |-> it.objects, err |-> it.err]>>],
                 it.objects, it.err, "iter", t.reads, t.dirtyAt, rd)

\* master from openTable(1)'s answer on
masterOpened(t, rd) ==
    IF t.err # "nil"
    THEN MasterResult(t.db, <<>>, t.err, "none", t.reads, t.dirtyAt, rd)
    ELSE masterRead(t, masterIter(t.p[1].cells, 1, <<>>), rd)

\* master from resolveDirty's answer on
masterResolved(r) ==
    IF r.err # "nil"
    THEN MasterResult(r.db, <<>>, r.err, "none", <<>>, <<>>, r.rd)
    ELSE IF r.db.objectCache # <<>>
    THEN MasterResult(r.db, r.db.objectCache[1].objects,
                      r.db.objectCache[1].err, "objectCache", <<>>,
                      <<r.db.dirty>>, r.rd)
    ELSE masterOpened(openTable(r.db, 1), r.rd)

\* db.master()
master(d) == masterResolved(resolveDirty(d))

\* the first object of the given type and name: its index, or 0
FirstObject(objects, typ, name) ==
    IF \E i \in 1..Len(objects) : objects[i].typ = typ /\ objects[i].name = name
    THEN CHOOSE i \in 1..Len(objects) :
             /\ objects[i].typ = typ /\ objects[i].name = name
             /\ \A k \in 1..(i - 1) :
                    ~(objects[k].typ = typ /\ objects[k].name = name)
    ELSE 0

\* the handle of the i-th object
HandleOf(objects, i) ==
    <<[root |-> objects[i].rootPage, sql |-> objects[i].sql]>>

\* the search of Table and Index in master()'s answer m: [m, handle, err]
findObject(m, i, notFound) ==
    IF m.err # "nil" THEN [m |-> m, handle |-> <<>>, err |-> m.err]
    ELSE IF i # 0 THEN [m |-> m, handle |-> HandleOf(m.objects, i), err |-> "nil"]
    ELSE [m |-> m, handle |-> <<>>, err |-> notFound]

\* TableIn looking at the name alone
TableIn_anyType(m, name) ==
    findObject(m,
               IF \E i \in 1..Len(m.objects) : m.objects[i].name = name
               THEN CHOOSE i \in 1..Len(m.objects) :
                        /\ m.objects[i].name = name
                        /\ \A k \in 1..(i - 1) : m.objects[k].name # name
               ELSE 0,
               "ErrNoSuchTable")

TableIn(m, name) ==
    findObject(m, FirstObject(m.objects, "table", name), "ErrNoSuchTable")

IndexIn(m, name) ==
    findObject(m, FirstObject(m.objects, "index", name), "ErrNoSuchIndex")

\* db.Table(name): [m, handle, err], m the master() call it makes
Database_Table(d, name) == TableIn(master(d), name)

\* db.Index(name): [m, handle, err]
Database_Index(d, name) == IndexIn(master(d), name)

(***************************************************************************)
(* Record comparison                                                       *)
(***************************************************************************)
\* the texts of the records compared, in BINARY order
Alphabet == <<"", "a", "b", "k", "v">>

StrRank(s) == CHOOSE i \in 1..Len(Alphabet) : Alphabet[i] = s

\* NULL < numerics < text
TypeRank(v) == IF v.t = "nil" THEN 0 ELSE IF v.t = "int64" THEN 1 ELSE 2

Sign(x, y) == IF x < y THEN -1 ELSE IF x > y THEN 1 ELSE 0

cmpValue(a, b) ==
    IF TypeRank(a) # TypeRank(b) THEN Sign(TypeRank(a), TypeRank(b))
    ELSE IF a.t = "int64" THEN Sign(a.n, b.n)
    ELSE IF a.t = "string" THEN Sign(StrRank(a.s), StrRank(b.s))
    ELSE 0

\* value by value to the length of the shorter; a proper prefix is less
RECURSIVE cmpFrom(_, _, _)
cmpFrom(a, b, i) ==
    IF i > Len(a) \/ i > Len(b) THEN Sign(Len(a), Len(b))
    ELSE IF cmpValue(a[i], b[i]) # 0 THEN cmpValue(a[i], b[i])
    ELSE cmpFrom(a, b, i + 1)

\* the error of a comparison that reaches a value the comparator does not
\* order
RECURSIVE cmpErrFrom(_, _, _)
cmpErrFrom(a, b, i) ==
    IF i > Len(a) \/ i > Len(b) THEN "nil"
    ELSE IF a[i].t = "other" \/ b[i].t = "other" THEN "cmp: unhandled type"
    ELSE IF cmpValue(a[i], b[i]) # 0 THEN "nil"
    ELSE cmpErrFrom(a, b, i + 1)

\* Cmp(a, b): [res, err]
Cmp(a, b) ==
    [res |-> IF cmpErrFrom(a, b, 1) = "nil" THEN cmpFrom(a, b, 1) ELSE 0,
     err |-> cmpErrFrom(a, b, 1)]

(***************************************************************************)
(* Scans: the callbacks of the low level methods and the b-tree iteration  *)
(***************************************************************************)
maxRecursion == 12

\* what a scan is given: the call at which the user callback answers true
\* (0: never), the rowid looked for, the record looked for
ScanArg(stopAt, rowid, key) == [stopAt |-> stopAt, rowid |-> rowid, key |-> key]

\* a scan under way: the Database, the calls of the user callback so far, the
\* cell or record an internal callback kept, the number of callbacks made by
\* the iteration, the stop flag and the error
NewVisit(d) ==
    [db |-> d, calls |-> <<>>, found |-> <<>>, n |-> 0, done |-> FALSE,
     err |-> "nil"]

\* cb(rowid, rec) or cb(rec) of the user, and its answer
UserCalled(it, rowid, e, stopAt) ==
    [it EXCEPT !.calls = Append(it.calls, [rowid |-> rowid, e |-> e]),
               !.done = (stopAt # 0 /\ Len(it.calls) + 1 = stopAt)]

Failed(it, err) == [it EXCEPT !.err = err]

\* scanCallback calling the user on a cell that does not decode
scanCallback_noDecodeCheck(it, c, stopAt) ==
    IF addOverflow(c).err # "nil" THEN Failed(it, addOverflow(c).err)
    ELSE UserCalled(it, c.rowid, parseRecord(addOverflow(c).c).e, stopAt)

\* scanCallback that answers "go on" whatever the user says
scanCallback_neverStops(it, c, stopAt) ==
    IF addOverflow(c).err # "nil" THEN Failed(it, addOverflow(c).err)
    ELSE IF parseRecord(addOverflow(c).c).err # "nil"
    THEN Failed(it, parseRecord(addOverflow(c).c).err)
    ELSE [UserCalled(it, c.rowid, parseRecord(addOverflow(c).c).e, stopAt)
              EXCEPT !.done = FALSE]

\* the callback Table.Scan, Table.WithoutRowidScan and Index.Scan give to
\* Iter: assemble, decode, then the user's callback
scanCallback(it, c, stopAt) ==
    IF addOverflow(c).err # "nil" THEN Failed(it, addOverflow(c).err)
    ELSE IF parseRecord(addOverflow(c).c).err # "nil"
    THEN Failed(it, parseRecord(addOverflow(c).c).err)
    ELSE UserCalled(it, c.rowid, parseRecord(addOverflow(c).c).e, stopAt)

\* rowidCallback keeping whatever cell it is given
rowidCallback_anyKey(it, c, rowid) ==
    [it EXCEPT !.found = <<c>>, !.done = TRUE]

\* the callback Table.Rowid gives to IterMin
rowidCallback(it, c, rowid) ==
    [it EXCEPT !.found = IF c.rowid = rowid THEN <<c>> ELSE it.found,
               !.done = TRUE]

\* the callback Table.WithoutRowidScanMin and Index.ScanMin give to IterMin
minCallback(it, rec, stopAt) == UserCalled(it, 0, rec, stopAt)

\* the callback Table.WithoutRowidPK gives to IterMin
pkCallback(it, rec, key) ==
    IF Cmp(key, rec).err # "nil" THEN Failed(it, Cmp(key, rec).err)
    ELSE [it EXCEPT !.found = IF Cmp(key, rec).res = 0 THEN <<rec>>
                               ELSE it.found,
                    !.done = TRUE]

\* eqCallback that goes on past the key
eqCallback_pastKey(it, rec, key, stopAt) ==
    IF Cmp(rec, key).err # "nil" THEN Failed(it, Cmp(rec, key).err)
    ELSE UserCalled(it, 0, rec, stopAt)

\* the callback Index.ScanEq gives to IterMin
eqCallback(it, rec, key, stopAt) ==
    IF Cmp(rec, key).err # "nil" THEN Failed(it, Cmp(rec, key).err)
    ELSE IF Cmp(rec, key).res > 0 THEN [it EXCEPT !.done = TRUE]
    ELSE UserCalled(it, 0, rec, stopAt)

\* the iteration calls the operation's callback on a cell (rec: the record
\* the index IterMin decoded from it)
callback(op, arg, it, c, rec) ==
    IF op \in {"Scan", "WithoutRowidScan", "IndexScan"}
    THEN scanCallback([it EXCEPT !.n = it.n + 1], c, arg.stopAt)
    ELSE IF op = "Rowid"
    THEN rowidCallback([it EXCEPT !.n = it.n + 1], c, arg.rowid)
    ELSE IF op \in {"WithoutRowidScanMin", "ScanMin"}
    THEN minCallback([it EXCEPT !.n = it.n + 1], rec, arg.stopAt)
    ELSE IF op = "WithoutRowidPK"
    THEN pkCallback([it EXCEPT !.n = it.n + 1], rec, arg.key)
    ELSE eqCallback([it EXCEPT !.n = it.n + 1], rec, arg.key, arg.stopAt)

Stopped(it) == it.done \/ it.err # "nil"

\* the cells of a table leaf from the i-th on, left to right
RECURSIVE tableLeafIter(_, _, _, _, _)
tableLeafIter(it, cells, i, op, arg) ==
    IF i > Len(cells) \/ Stopped(it) THEN it
    ELSE tableLeafIter(callback(op, arg, it, cells[i], <<>>), cells, i + 1,
                       op, arg)

\* the first cell of a table page whose rowid is >= key, Len + 1 if none
SeekRowid(cells, key) ==
    IF \E i \in 1..Len(cells) : cells[i].rowid >= key
    THEN CHOOSE i \in 1..Len(cells) :
             /\ cells[i].rowid >= key
             /\ \A k \in 1..(i - 1) : cells[k].rowid < key
    ELSE Len(cells) + 1

\* the children of an interior table page from the i-th cell on, then the
\* rightmost child
Children(p, i) ==
    [k \in 1..(Len(p.cells) - i + 1) |-> p.cells[i + k - 1].left] \o <<p.right>>

\* Iter (min empty) and IterMin (min holds the rowid) of a table b-tree page
\* with r levels of recursion left
RECURSIVE tableIter(_, _, _, _, _, _)
RECURSIVE tableChildren(_, _, _, _, _, _, _)
tableChild(it, o, kids, i, r, min, op, arg) ==
    IF o.err # "nil" THEN [it EXCEPT !.db = o.db, !.err = o.err]
    ELSE tableChildren(tableIter([it EXCEPT !.db = o.db], o.p[1], r - 1, min,
                                 op, arg),
                       kids, i + 1, r, min, op, arg)

tableChildren(it, kids, i, r, min, op, arg) ==
    IF i > Len(kids) \/ Stopped(it) THEN it
    ELSE tableChild(it, openTable(it.db, kids[i]), kids, i, r, min, op, arg)

tableIter(it, p, r, min, op, arg) ==
    IF p.flag = 13
    THEN tableLeafIter(it, p.cells,
                       IF min = <<>> THEN 1 ELSE SeekRowid(p.cells, min[1]),
                       op, arg)
    ELSE IF r = 0 THEN Failed(it, "ErrRecursion")
    ELSE tableChildren(it,
                       Children(p, IF min = <<>> THEN 1
                                   ELSE SeekRowid(p.cells, min[1])),
                       1, r, min, op, arg)

\* Iter of an index leaf: the cells left to right
RECURSIVE indexLeafIter(_, _, _, _, _)
indexLeafIter(it, cells, i, op, arg) ==
    IF i > Len(cells) \/ Stopped(it) THEN it
    ELSE indexLeafIter(callback(op, arg, it, cells[i], <<>>), cells, i + 1,
                       op, arg)

\* IterMin of an index leaf: each cell is assembled and decoded, the records
\* below the key are passed over, the others go to the callback
RECURSIVE indexLeafIterMin(_, _, _, _, _)
indexMinCell(it, c, op, arg) ==
    IF addOverflow(c).err # "nil" THEN Failed(it, addOverflow(c).err)
    ELSE IF parseRecord(addOverflow(c).c).err # "nil"
    THEN Failed(it, parseRecord(addOverflow(c).c).err)
    ELSE IF Cmp(parseRecord(addOverflow(c).c).e, arg.key).err # "nil"
    THEN Failed(it, Cmp(parseRecord(addOverflow(c).c).e, arg.key).err)
    ELSE IF Cmp(parseRecord(addOverflow(c).c).e, arg.key).res < 0 THEN it
    ELSE callback(op, arg, it, c, parseRecord(addOverflow(c).c).e)

indexLeafIterMin(it, cells, i, op, arg) ==
    IF i > Len(cells) \/ Stopped(it) THEN it
    ELSE indexLeafIterMin(indexMinCell(it, cells[i], op, arg), cells, i + 1,
                          op, arg)

\* What a scan returns: openTable's or openIndex's observation of the root,
\* the error, the user callback's calls, the record returned and the number
\* of callbacks the iteration made
ScanResult(o, it, rec, err) ==
    [db |-> it.db, p |-> o.p, err |-> err, src |-> o.src, reads |-> o.reads,
     dirtyAt |-> o.dirtyAt, rd |-> o.rd,
     out |-> <<[calls |-> it.calls, rec |-> rec, n |-> it.n]>>]

\* the scan of a root that did not open, or whose iteration is over
scanOver(o, it) == ScanResult(o, it, <<>>, it.err)

\* the scan of a root that did not open
scanFailed(o) == ScanResult(o, NewVisit(o.db), <<>>, o.err)

\* Table_Scan_opened seeking the first rowid instead of starting at the left
Table_Scan_opened_seeks(o, stopAt) ==
    IF o.err # "nil" THEN scanFailed(o)
    ELSE scanOver(o, tableIter(NewVisit(o.db), o.p[1], maxRecursion, <<2>>,
                               "Scan", ScanArg(stopAt, 0, <<>>)))

Table_Scan_opened(o, stopAt) ==
    IF o.err # "nil" THEN scanFailed(o)
    ELSE scanOver(o, tableIter(NewVisit(o.db), o.p[1], maxRecursion, <<>>,
                               "Scan", ScanArg(stopAt, 0, <<>>)))

\* t.Scan(cb): openTable, then Iter
Table_Scan(d, root, stopAt) == Table_Scan_opened(openTable(d, root), stopAt)

indexScanOpened(o, op, stopAt) ==
    IF o.err # "nil" THEN scanFailed(o)
    ELSE scanOver(o, indexLeafIter(NewVisit(o.db), o.p[1].cells, 1, op,
                                   ScanArg(stopAt, 0, <<>>)))

\* t.WithoutRowidScan(cb): openIndex, then Iter
Table_WithoutRowidScan(d, root, stopAt) ==
    indexScanOpened(openIndex(d, root), "WithoutRowidScan", stopAt)

\* in.Scan(cb): openIndex, then Iter
Index_Scan(d, root, stopAt) ==
    indexScanOpened(openIndex(d, root), "IndexScan", stopAt)

\* Rowid from IterMin's answer on: nil when no cell was kept, else the cell
\* assembled and decoded
Rowid_found(o, it) ==
    IF it.err # "nil" THEN ScanResult(o, it, <<>>, it.err)
    ELSE IF it.found = <<>> THEN ScanResult(o, it, <<>>, "nil")
    ELSE IF addOverflow(it.found[1]).err # "nil"
    THEN ScanResult(o, it, <<>>, addOverflow(it.found[1]).err)
    ELSE IF parseRecord(addOverflow(it.found[1]).c).err # "nil"
    THEN ScanResult(o, it, <<>>, parseRecord(addOverflow(it.found[1]).c).err)
    ELSE ScanResult(o, it, <<parseRecord(addOverflow(it.found[1]).c).e>>, "nil")

Rowid_opened(o, rowid) ==
    IF o.err # "nil" THEN scanFailed(o)
    ELSE Rowid_found(o, tableIter(NewVisit(o.db), o.p[1], maxRecursion,
                                  <<rowid>>, "Rowid",
                                  ScanArg(0, rowid, <<>>)))

\* t.Rowid(rowid): openTable, IterMin from rowid, then the cell it kept
Table_Rowid(d, root, rowid) == Rowid_opened(openTable(d, root), rowid)

\* indexMinOpened starting at the first cell whatever the key
indexMinOpened_fromStart(o, op, key, stopAt) ==
    IF o.err # "nil" THEN scanFailed(o)
    ELSE scanOver(o, indexLeafIterMin(NewVisit(o.db), o.p[1].cells, 1, op,
                                      ScanArg(stopAt, 0, <<>>)))

indexMinOpened(o, op, key, stopAt) ==
    IF o.err # "nil" THEN scanFailed(o)
    ELSE scanOver(o, indexLeafIterMin(NewVisit(o.db), o.p[1].cells, 1, op,
                                      ScanArg(stopAt, 0, key)))

\* t.WithoutRowidScanMin(key, cb): openIndex, then IterMin from key
Table_WithoutRowidScanMin(d, root, key, stopAt) ==
    indexMinOpened(openIndex(d, root), "WithoutRowidScanMin", key, stopAt)

\* in.ScanMin(from, cb): openIndex, then IterMin from the record
Index_ScanMin(d, root, key, stopAt) ==
    indexMinOpened(openIndex(d, root), "ScanMin", key, stopAt)

\* in.ScanEq(key, cb): openIndex, then IterMin with the callback that stops
\* at the first record above the key
Index_ScanEq(d, root, key, stopAt) ==
    indexMinOpened(openIndex(d, root), "ScanEq", key, stopAt)

WithoutRowidPK_opened(o, key) ==
    IF o.err # "nil" THEN scanFailed(o)
    ELSE (LET it == indexLeafIterMin(NewVisit(o.db), o.p[1].cells, 1,
                                     "WithoutRowidPK", ScanArg(0, 0, key))
          IN  ScanResult(o, it, it.found, it.err))

\* t.WithoutRowidPK(r): openIndex, IterMin from r, the record kept and the error
Table_WithoutRowidPK(d, root, key) ==
    WithoutRowidPK_opened(openIndex(d, root), key)

\* withoutRowid that accepts a root of any kind
Table_withoutRowid_anyKind(d, root) ==
    [o |-> openPage(d, root), is |-> openPage(d, root).err = "nil"]

\* t.withoutRowid(): whether openIndex(root) answers without error
Table_withoutRowid(d, root) ==
    [o |-> openIndex(d, root), is |-> openIndex(d, root).err = "nil"]

(***************************************************************************)
(* The rowid alias of the schema layer                                     *)
(***************************************************************************)
\* a type name is the sequence of its letters
\* strings.ToUpper on one letter
upperLetter(c) ==
    CASE c = "i" -> "I" [] c = "n" -> "N" [] c = "t" -> "T" [] c = "e" -> "E"
      [] c = "g" -> "G" [] c = "r" -> "R" [] c = "s" -> "S" [] c = "x" -> "X"
      [] OTHER -> c

\* strings.ToUpper
ToUpper(w) == [i \in 1..Len(w) |-> upperLetter(w[i])]

INTEGER == <<"I", "N", "T", "E", "G", "E", "R">>

\* isRowid that refuses every descending key
isRowid_neverDesc(tableConstraint, typ, dir) ==
    IF ToUpper(typ) # INTEGER THEN FALSE
    ELSE dir = "Asc"

\* isRowid(flag, type, direction): whether a single-column primary key of this
\* type and direction is an alias of the rowid
isRowid(tableConstraint, typ, dir) ==
    IF ToUpper(typ) # INTEGER THEN FALSE
    ELSE IF tableConstraint THEN TRUE
    ELSE dir = "Asc"

\* the table of TestIsRowid: the arguments and the answer the test wants
IsRowidCases ==
    <<[flag |-> TRUE, typ |-> <<"I", "n", "t", "e", "g", "e", "r">>,
       dir |-> "Asc", want |-> TRUE],
      [flag |-> TRUE, typ |-> <<"I", "n", "t">>, dir |-> "Asc", want |-> FALSE],
      [flag |-> TRUE, typ |-> <<"I", "n", "t", "e", "g", "e", "r">>,
       dir |-> "Desc", want |-> TRUE],
      [flag |-> FALSE, typ |-> <<"I", "n", "t", "e", "g", "e", "r">>,
       dir |-> "Desc", want |-> FALSE],
      [flag |-> FALSE, typ |-> <<"I", "n", "t", "e", "g", "e", "r">>,
       dir |-> "Asc", want |-> TRUE]>>

\* TestSchemaRowid2: create table foo(a integer, primary key(a desc)) gives
\* column a with RowID true
SchemaRowid2Case ==
    [flag |-> TRUE, typ |-> <<"i", "n", "t", "e", "g", "e", "r">>,
     dir |-> "Desc", want |-> TRUE]

(***************************************************************************)
(* Input sets                                                              *)
(***************************************************************************)
MaxUint16 == 65535

\* headers a writer stores while the database is in use
FileHeaders ==
    {GoodHeader(cc, ck) : cc \in 0..MaxCounter, ck \in 0..MaxCounter}
        \cup {[GoodHeader(0, 0) EXCEPT !.ReadVersion = 2]}

NonZeroBytes(i) == [ZeroBytes EXCEPT ![i] = 1]

\* headers parseHeader is tried on: every raw page size in a header that is
\* good otherwise, and every combination of good and bad fields
HeaderInputs ==
    {[GoodHeader(1, 1) EXCEPT !.PageSize = raw] : raw \in 0..MaxUint16}
    \cup
    [Magic : {headerMagic, "SQLite format 2\\x00"},
     PageSize : {1, 512, 768},
     ReadVersion : {1, 2, 3},
     ReservedSpace : {0, 8},
     MaxFraction : {64, 65},
     MinFraction : {32, 33},
     LeafFraction : {32, 33},
     ChangeCounter : {1},
     SchemaCookie : {1},
     SchemaFormat : {1, 2, 3, 4, 5},
     TextEncoding : {0, 1, 2, 3, 4},
     ReservedForExpansion : {ZeroBytes, NonZeroBytes(1), NonZeroBytes(20)}]

MasterRow(typ, name, root, sql) ==
    Cell(<<StringVal(typ), StringVal(name), StringVal(name), Int64Val(root),
           StringVal(sql)>>)

Names == {"a", "b"}

\* the cells of a table leaf in rowid order, numbered from 1
Numbered(q) == [i \in 1..Len(q) |-> [q[i] EXCEPT !.rowid = i]]

TableLeaf(cells) == [flag |-> 13, cells |-> cells, right |-> 0]
IndexLeaf(cells) == [flag |-> 10, cells |-> cells, right |-> 0]
Garbage == [flag |-> 0, cells |-> <<>>, right |-> 0]
\* an interior table page: each cell has a child and the largest rowid below
\* it, right is the child of the rowids above them all
TableInterior(cells, right) == [flag |-> 5, cells |-> cells, right |-> right]
Divider(left, key) == [Cell(<<>>) EXCEPT !.left = left, !.rowid = key]

\* contents of the first block (page 1, after the header) a writer stores
MasterBlocks ==
    {TableLeaf(Numbered(<<MasterRow("table", "a", 2, "CREATE TABLE a")>>)),
     TableLeaf(Numbered(<<MasterRow("table", "a", 2, "CREATE TABLE a"),
                          Cell(<<StringVal("table"), StringVal("b")>>)>>)),
     IndexLeaf(<<>>)}

\* contents of a later block
DataBlocks ==
    {TableLeaf(Numbered(<<Cell(<<Int64Val(1)>>)>>)),
     IndexLeaf(<<Cell(<<Int64Val(1)>>)>>),
     Garbage}

BlocksAt(i) == IF i = 1 THEN MasterBlocks ELSE DataBlocks

RECURSIVE Files(_)
\* the files of exactly n blocks
Files(n) ==
    IF n = 0 THEN {<<>>}
    ELSE {Append(f, b) : f \in Files(n - 1), b \in BlocksAt(n)}

NoJournal ==
    [exists |-> FALSE, readable |-> FALSE, size |-> 0, magic |-> FALSE,
     pageCount |-> 0]

HotJournal ==
    [exists |-> TRUE, readable |-> TRUE, size |-> 28, magic |-> TRUE,
     pageCount |-> 1]

\* the sidecars a writer leaves while the database is in use
WriterJournals == {NoJournal, HotJournal}

\* the sidecars OpenFile may find
JournalFiles ==
    {NoJournal, HotJournal,
     [HotJournal EXCEPT !.pageCount = 0],
     [HotJournal EXCEPT !.magic = FALSE],
     [HotJournal EXCEPT !.size = 27],
     [HotJournal EXCEPT !.readable = FALSE]}

\* the headers OpenFile may find
OpenHeaders ==
    FileHeaders \cup {[GoodHeader(0, 0) EXCEPT !.Magic = "SQLite format 2\\x00"],
                      [GoodHeader(0, 0) EXCEPT !.PageSize = 768]}

\* rows of other shapes than sqlite_master's: a value short, a value long, and
\* a value of another type at each place where text is required
BadRows ==
    {Cell(<<StringVal("table"), StringVal("a"), StringVal("a"), Int64Val(2)>>),
     Cell(<<StringVal("table"), StringVal("a"), StringVal("a"), Int64Val(2),
            StringVal("sql"), NilVal>>)}
    \cup {Cell([<<StringVal("table"), StringVal("a"), StringVal("a"),
                  Int64Val(2), StringVal("sql")>> EXCEPT ![k] = v]) :
              k \in {1, 2, 3, 5}, v \in {NilVal, Int64Val(7)}}

\* rows of the sqlite_master tables Table and Index are tried on
MasterRows ==
    {MasterRow(typ, name, root, IF root = 2 THEN "CREATE 2" ELSE "CREATE 3") :
        typ \in {"table", "index"}, name \in Names, root \in {2, 3}}
    \cup {Cell(<<StringVal("table"), StringVal("a"), StringVal("a"),
                 StringVal("2"), StringVal("sql")>>),
          CorruptCell}
    \cup BadRows
    \cup {MasterRow("index", "b", 3, ""), TruncatedCell}

\* a row of a scanned table
Row(rowid) ==
    [Cell(<<Int64Val(rowid), StringVal("v")>>) EXCEPT !.rowid = rowid]

\* what a cell with this rowid may hold: a row, a payload that does not
\* decode, a payload whose overflow chain leaves the file
RowKinds(rowid) ==
    {Row(rowid), [CorruptCell EXCEPT !.rowid = rowid],
     [TruncatedCell EXCEPT !.rowid = rowid]}

\* the members of a set of integers in ascending order
RECURSIVE Ascending(_)
Ascending(S) ==
    IF S = {} THEN <<>>
    ELSE LET m == CHOOSE x \in S : \A y \in S : x <= y
         IN  <<m>> \o Ascending(S \ {m})

RowOrCorrupt == {"row", "corrupt"}

CellOfKind(rowid, kind) ==
    IF kind = "row" THEN Row(rowid) ELSE [CorruptCell EXCEPT !.rowid = rowid]

\* the cell sequences with rowids in lo..hi made of rows and undecodable cells
TwoKindCells(lo, hi) ==
    UNION {{[i \in 1..Len(Ascending(S)) |->
                 CellOfKind(Ascending(S)[i], f[Ascending(S)[i]])] :
               f \in [S -> RowOrCorrupt]} : S \in SUBSET (lo..hi)}

AllKindCells(lo, hi) ==
    UNION {{[i \in 1..Len(Ascending(S)) |-> f[Ascending(S)[i]]] :
               f \in {g \in [S -> UNION {RowKinds(r) : r \in S}] :
                          \A r \in S : g[r] \in RowKinds(r)}} :
           S \in SUBSET (lo..hi)}

\* files of a rowid table: page 1, then a leaf root at page 2
LeafTableFiles ==
    {<<TableLeaf(<<>>), TableLeaf(c)>> : c \in AllKindCells(1, MaxKey)}

\* files of a rowid table of two levels: the root at page 2 has one divider k,
\* the rowids up to k are at page 3, those above at page 4
TreeTableFiles ==
    UNION {{<<TableLeaf(<<>>), TableInterior(<<Divider(3, k)>>, 4),
              TableLeaf(a), TableLeaf(b)>> :
               a \in TwoKindCells(1, k), b \in TwoKindCells(k + 1, MaxKey)} :
           k \in 1..MaxKey}

\* files whose root names a child that is an index page, that is past the end
\* of the file, that is the root itself
BrokenTreeFiles ==
    {<<TableLeaf(<<>>), TableInterior(<<Divider(3, 1)>>, 4),
       TableLeaf(<<Row(1)>>), IndexLeaf(<<>>)>>,
     <<TableLeaf(<<>>), TableInterior(<<Divider(3, 1)>>, 4),
       TableLeaf(<<Row(1)>>)>>,
     <<TableLeaf(<<>>), TableInterior(<<Divider(2, 1)>>, 2)>>}

\* the records of the scanned indexes, in ascending order
IndexRecords ==
    <<<<Int64Val(1), StringVal("k")>>>>
    \o [k \in 1..MaxKey |-> <<Int64Val(k), StringVal("v")>>]

IndexCellKinds(i) == {Cell(IndexRecords[i]), CorruptCell, TruncatedCell}

\* files of an index, or WITHOUT ROWID table, whose root is a leaf at page 2
IndexFiles ==
    UNION {{<<TableLeaf(<<>>),
              IndexLeaf([i \in 1..Len(Ascending(S)) |-> f[Ascending(S)[i]]])>> :
               f \in {g \in [S -> UNION {IndexCellKinds(i) : i \in S}] :
                          \A i \in S : g[i] \in IndexCellKinds(i)}} :
           S \in SUBSET (1..Len(IndexRecords))}

\* the records looked for: a first column alone, and whole records
SeekKeys ==
    {<<Int64Val(k)>> : k \in 0..(MaxKey + 1)}
    \cup {IndexRecords[i] : i \in 1..Len(IndexRecords)}

\* keys holding a value the comparator does not order, first or second
UnorderedKeys == {<<OtherVal>>, <<Int64Val(1), OtherVal>>}

RECURSIVE RowSeqs(_)
\* the sequences of at most n rows
RowSeqs(n) ==
    IF n = 0 THEN {<<>>}
    ELSE RowSeqs(n - 1)
         \cup {Append(q, r) : q \in {x \in RowSeqs(n - 1) : Len(x) = n - 1},
                              r \in MasterRows}

(***************************************************************************)
(* The calls                                                               *)
(***************************************************************************)
IdleRet ==
    [op |-> "none", arg |-> 0, name |-> "", err |-> "nil", p |-> <<>>,
     objects |-> <<>>, handle |-> <<>>, src |-> "none", reads |-> <<>>,
     dirtyAt |-> <<>>, rd |-> NoResolve, h |-> <<>>, first |-> <<>>,
     out |-> <<>>]

\* the observation of a call that went through openPage or master
RetOf(op, arg, name, o) ==
    [IdleRet EXCEPT !.op = op, !.arg = arg, !.name = name, !.err = o.err,
                    !.src = o.src, !.reads = o.reads, !.dirtyAt = o.dirtyAt,
                    !.rd = o.rd]

FileUnchanged == UNCHANGED <<fileHdr, fileData, journalFile>>

\* no call is under way: the caller has taken the last call's result
Idle == ret.op = "none"

\* the caller takes the result of the call
Return ==
    /\ ~Idle
    /\ ret' = IdleRet
    /\ UNCHANGED <<pager, db>>
    /\ FileUnchanged

\* the Database as newDatabase builds it
FreshDatabase(journal) ==
    [journal |-> journal, dirty |-> TRUE, header |-> <<>>,
     btreeCache |-> newBtreeCache, objectCache |-> <<>>]

Opened(r) ==
    /\ db' = r.db
    /\ ret' = [IdleRet EXCEPT !.op = "OpenFile", !.err = r.err, !.rd = r.rd]

\* newDatabase(l, journal): the Database is returned whatever resolveDirty says
newDatabase(journal) == Opened(resolveDirty(FreshDatabase(journal)))

\* OpenFile closing the pager when the first resolveDirty fails
OpenFile_closesOnError ==
    /\ pager = "none" /\ Idle
    /\ pager' = IF resolveDirty(FreshDatabase(JournalPath)).err # "nil"
                THEN "closed" ELSE "open"
    /\ newDatabase(JournalPath)
    /\ FileUnchanged

\* OpenFile(f): the journal is f + "-journal"
OpenFile ==
    /\ pager = "none" /\ Idle
    /\ pager' = "open"
    /\ newDatabase(JournalPath)
    /\ FileUnchanged

\* newDatabase(l, "") on a pager of this file: no sidecar is looked at
OpenNoJournal ==
    /\ pager = "none" /\ Idle
    /\ pager' = "open"
    /\ newDatabase("")
    /\ FileUnchanged

\* RLock that leaves dirty as it is
RLock_keepsDirty ==
    /\ pager = "open" /\ Idle
    /\ db' = db
    /\ ret' = [IdleRet EXCEPT !.op = "RLock"]
    /\ UNCHANGED pager
    /\ FileUnchanged

RLock ==
    /\ pager = "open" /\ Idle
    /\ db' = [db EXCEPT !.dirty = TRUE]
    /\ ret' = [IdleRet EXCEPT !.op = "RLock"]
    /\ UNCHANGED pager
    /\ FileUnchanged

RUnlock ==
    /\ pager = "open" /\ Idle
    /\ ret' = [IdleRet EXCEPT !.op = "RUnlock"]
    /\ UNCHANGED <<pager, db>>
    /\ FileUnchanged

\* a call that returned a page
PageCalled(op, page, o) ==
    /\ db' = o.db
    /\ ret' = [RetOf(op, page, "", o) EXCEPT !.p = o.p]

CallOpenPage(page) ==
    /\ pager = "open" /\ Idle
    /\ PageCalled("openPage", page, openPage(db, page))
    /\ UNCHANGED pager
    /\ FileUnchanged

MasterCalled(m) ==
    /\ db' = m.db
    /\ ret' = [RetOf("master", 0, "", m) EXCEPT !.objects = m.objects]

CallMaster ==
    /\ pager = "open" /\ Idle
    /\ MasterCalled(master(db))
    /\ UNCHANGED pager
    /\ FileUnchanged

\* master() called again right after master(), with or without an RLock in
\* between; first keeps what the first call returned
Relocked(d, lock) == IF lock THEN [d EXCEPT !.dirty = TRUE] ELSE d

MasterAgainCalled(m1, m2) ==
    /\ db' = m2.db
    /\ ret' = [RetOf("masterAgain", 0, "", m2) EXCEPT
                   !.objects = m2.objects,
                   !.first = <<[err |-> m1.err, src |-> m1.src,
                                objects |-> m1.objects]>>]

MasterAgainFrom(m1, lock) ==
    MasterAgainCalled(m1, master(Relocked(m1.db, lock)))

MasterAgain(lock) ==
    /\ pager = "open" /\ Idle
    /\ MasterAgainFrom(master(db), lock)
    /\ UNCHANGED pager
    /\ FileUnchanged

\* a call that returned a handle
HandleCalled(op, name, t) ==
    /\ db' = t.m.db
    /\ ret' = [RetOf(op, 0, name, t.m) EXCEPT
                   !.err = t.err, !.handle = t.handle, !.objects = t.m.objects]

Table(name) ==
    /\ pager = "open" /\ Idle
    /\ HandleCalled("Table", name, Database_Table(db, name))
    /\ UNCHANGED pager
    /\ FileUnchanged

Index(name) ==
    /\ pager = "open" /\ Idle
    /\ HandleCalled("Index", name, Database_Index(db, name))
    /\ UNCHANGED pager
    /\ FileUnchanged

\* a scan that returned; out holds the user callback's calls, the record
\* returned and the number of callbacks, arg the root, key what was looked for
ScanCalled(op, root, key, stopAt, o) ==
    /\ db' = o.db
    /\ ret' = [RetOf(op, root, "", o) EXCEPT
                   !.p = o.p,
                   !.out = <<[calls |-> o.out[1].calls, rec |-> o.out[1].rec,
                              n |-> o.out[1].n, key |-> key,
                              stopAt |-> stopAt]>>]

\* Table.Scan with a callback that never stops
Scan(root) ==
    /\ pager = "open" /\ Idle
    /\ ScanCalled("Scan", root, <<>>, 0, Table_Scan(db, root, 0))
    /\ UNCHANGED pager
    /\ FileUnchanged

WithoutRowidScan(root, stopAt) ==
    /\ pager = "open" /\ Idle
    /\ ScanCalled("WithoutRowidScan", root, <<>>, stopAt,
                  Table_WithoutRowidScan(db, root, stopAt))
    /\ UNCHANGED pager
    /\ FileUnchanged

IndexScan(root, stopAt) ==
    /\ pager = "open" /\ Idle
    /\ ScanCalled("IndexScan", root, <<>>, stopAt, Index_Scan(db, root, stopAt))
    /\ UNCHANGED pager
    /\ FileUnchanged

\* Table.Scan with a callback that stops at its stopAt-th call
ScanUntil(root, stopAt) ==
    /\ pager = "open" /\ Idle
    /\ ScanCalled("Scan", root, <<>>, stopAt, Table_Scan(db, root, stopAt))
    /\ UNCHANGED pager
    /\ FileUnchanged

Rowid(root, rowid) ==
    /\ pager = "open" /\ Idle
    /\ ScanCalled("Rowid", root, <<rowid>>, 0, Table_Rowid(db, root, rowid))
    /\ UNCHANGED pager
    /\ FileUnchanged

WithoutRowidScanMin(root, key, stopAt) ==
    /\ pager = "open" /\ Idle
    /\ ScanCalled("WithoutRowidScanMin", root, key, stopAt,
                  Table_WithoutRowidScanMin(db, root, key, stopAt))
    /\ UNCHANGED pager
    /\ FileUnchanged

ScanMin(root, key, stopAt) ==
    /\ pager = "open" /\ Idle
    /\ ScanCalled("ScanMin", root, key, stopAt,
                  Index_ScanMin(db, root, key, stopAt))
    /\ UNCHANGED pager
    /\ FileUnchanged

ScanEq(root, key, stopAt) ==
    /\ pager = "open" /\ Idle
    /\ ScanCalled("ScanEq", root, key, stopAt,
                  Index_ScanEq(db, root, key, stopAt))
    /\ UNCHANGED pager
    /\ FileUnchanged

WithoutRowidPK(root, key) ==
    /\ pager = "open" /\ Idle
    /\ ScanCalled("WithoutRowidPK", root, key, 0,
                  Table_WithoutRowidPK(db, root, key))
    /\ UNCHANGED pager
    /\ FileUnchanged

\* parseHeader on the file's first 100 bytes, by itself
CallParseHeader ==
    /\ Idle
    /\ LET r == parseHeader(fileHdr)
       IN  ret' = [IdleRet EXCEPT !.op = "parseHeader", !.err = r.err,
                                  !.h = <<r.h>>]
    /\ UNCHANGED <<pager, db>>
    /\ FileUnchanged

(***************************************************************************)
(* Other processes, between two calls                                      *)
(***************************************************************************)
WriteHeader ==
    /\ pager = "open" /\ Idle
    /\ \E hs \in FileHeaders \ {fileHdr} : fileHdr' = hs
    /\ ret' = IdleRet
    /\ UNCHANGED <<fileData, journalFile, pager, db>>

WriteBlock ==
    /\ pager = "open" /\ Idle
    /\ \E i \in 1..Len(fileData) : \E b \in BlocksAt(i) \ {fileData[i]} :
           fileData' = [fileData EXCEPT ![i] = b]
    /\ ret' = IdleRet
    /\ UNCHANGED <<fileHdr, journalFile, pager, db>>

Grow ==
    /\ pager = "open" /\ Idle
    /\ Len(fileData) < MaxBlocks
    /\ \E b \in BlocksAt(Len(fileData) + 1) : fileData' = Append(fileData, b)
    /\ ret' = IdleRet
    /\ UNCHANGED <<fileHdr, journalFile, pager, db>>

Truncate ==
    /\ pager = "open" /\ Idle
    /\ Len(fileData) > 0
    /\ fileData' = SubSeq(fileData, 1, Len(fileData) - 1)
    /\ ret' = IdleRet
    /\ UNCHANGED <<fileHdr, journalFile, pager, db>>

WriteJournal ==
    /\ pager = "open" /\ Idle
    /\ \E j \in WriterJournals \ {journalFile} : journalFile' = j
    /\ ret' = IdleRet
    /\ UNCHANGED <<fileHdr, fileData, pager, db>>

(***************************************************************************)
(* Specifications                                                          *)
(***************************************************************************)
\* the Database in use on a file that other processes rewrite
Init ==
    /\ fileHdr \in FileHeaders
    /\ fileData \in UNION {Files(n) : n \in 0..MaxBlocks}
    /\ journalFile \in WriterJournals
    /\ pager = "none"
    /\ db = NoDatabase
    /\ ret = IdleRet

Next ==
    \/ OpenFile
    \/ RLock
    \/ RUnlock
    \/ \E page \in 0..MaxPage : CallOpenPage(page)
    \/ CallMaster
    \/ \E lock \in BOOLEAN : MasterAgain(lock)
    \/ \E name \in Names : Table(name)
    \/ \E name \in Names : Index(name)
    \/ \E root \in 0..MaxPage : Scan(root)
    \/ WriteHeader
    \/ WriteBlock
    \/ Grow
    \/ Truncate
    \/ WriteJournal
    \/ Return

Spec == Init /\ [][Next]_vars

\* every spelling of a word in upper and lower case letters
RECURSIVE Spellings(_)
Spellings(w) ==
    IF w = <<>> THEN {<<>>}
    ELSE {<<c>> \o r : c \in {w[1], upperLetter(w[1])},
                        r \in Spellings(Tail(w))}

\* the column types isRowid is called with: integer and int in every
\* spelling, and names that are longer, shorter or differ in one letter
TypeNames ==
    Spellings(<<"i", "n", "t", "e", "g", "e", "r">>)
        \cup Spellings(<<"i", "n", "t">>)
        \cup {<<>>, <<"i", "n", "t", "e", "g", "e", "r", "s">>,
              <<"i", "n", "t", "e", "g", "e", "x">>, <<"t", "e", "x", "t">>}

\* isRowid(flag, type, direction)
CallIsRowid(flag, typ, dir) ==
    /\ Idle
    /\ ret' = [IdleRet EXCEPT
                   !.op = "isRowid",
                   !.out = <<[flag |-> flag, typ |-> typ, dir |-> dir,
                              is |-> isRowid(flag, typ, dir)]>>]
    /\ UNCHANGED <<pager, db>>
    /\ FileUnchanged

InitRowid ==
    /\ fileHdr = GoodHeader(0, 0)
    /\ fileData = <<>>
    /\ journalFile = NoJournal
    /\ pager = "none"
    /\ db = NoDatabase
    /\ ret = IdleRet

NextRowid ==
    \/ \E flag \in BOOLEAN, typ \in TypeNames, dir \in {"Asc", "Desc"} :
           CallIsRowid(flag, typ, dir)
    \/ Return

SpecRowid == InitRowid /\ [][NextRowid]_vars

\* openPage called again right after openPage, the file and the sidecar being
\* as they were; first keeps what the first call returned and left
OpenPageAgainCalled(o1, o2, page) ==
    /\ db' = o2.db
    /\ ret' = [RetOf("openPageAgain", page, "", o2) EXCEPT
                   !.p = o2.p,
                   !.first = <<[err |-> o1.err, rd |-> o1.rd, db |-> o1.db]>>]

OpenPageAgainFrom(o1, page) ==
    OpenPageAgainCalled(o1, openPage(o1.db, page), page)

OpenPageAgain(page) ==
    /\ pager = "open" /\ Idle
    /\ OpenPageAgainFrom(openPage(db, page), page)
    /\ UNCHANGED pager
    /\ FileUnchanged

\* OpenFile(f) when newFilePager returns an error: no pager and no Database
OpenFileNoPager(openErr, mmapErr) ==
    /\ pager = "none" /\ Idle
    /\ ~newFilePager(openErr, mmapErr).made
    /\ ret' = [IdleRet EXCEPT
                   !.op = "newFilePager",
                   !.err = newFilePager(openErr, mmapErr).err,
                   !.out = <<[openErr |-> openErr, mmapErr |-> mmapErr,
                              f |-> newFilePager(openErr, mmapErr).f,
                              mm |-> newFilePager(openErr, mmapErr).mm]>>]
    /\ UNCHANGED <<pager, db>>
    /\ FileUnchanged

\* db.Close(): the pager closes the file and the mapping
Close ==
    /\ pager = "open" /\ Idle
    /\ pager' = "closed"
    /\ ret' = [IdleRet EXCEPT !.op = "Close"]
    /\ UNCHANGED db
    /\ FileUnchanged

\* what os.Open and mmap.Open answer
OpenErrors == {"nil", "ENOENT"}
MmapErrors == {"nil", "ENOMEM"}

\* t.withoutRowid() on a handle of this root
WithoutRowid(root) ==
    /\ pager = "open" /\ Idle
    /\ db' = Table_withoutRowid(db, root).o.db
    /\ ret' = [RetOf("withoutRowid", root, "", Table_withoutRowid(db, root).o)
                   EXCEPT !.out = <<[is |-> Table_withoutRowid(db, root).is]>>]
    /\ UNCHANGED pager
    /\ FileUnchanged

\* db.page(id) on an opened Database
CallPage(id) ==
    /\ pager = "open" /\ Idle
    /\ db.header # <<>>
    /\ ret' = [IdleRet EXCEPT !.op = "page", !.arg = id,
                              !.err = Database_page(db, id).err,
                              !.out = <<Database_page(db, id)>>]
    /\ UNCHANGED <<pager, db>>
    /\ FileUnchanged

\* pages of one and of two blocks, asked for below, inside and past the file,
\* which may have grown or shrunk since the header was read
PageHeaders ==
    {GoodHeader(0, 0), [GoodHeader(0, 0) EXCEPT !.PageSize = 2 * BlockSize]}

InitPage ==
    /\ fileHdr \in PageHeaders
    /\ fileData \in UNION {Files(n) : n \in 1..MaxBlocks}
    /\ journalFile = NoJournal
    /\ pager = "none"
    /\ db = NoDatabase
    /\ ret = IdleRet

NextPage ==
    \/ OpenFile
    \/ \E id \in -1..(MaxPage + 2) : CallPage(id)
    \/ Grow
    \/ Truncate
    \/ Return

SpecPage == InitPage /\ [][NextPage]_vars

\* the first calls on a file as it is found, with and without a journal path;
\* only the sidecar changes afterwards
ReplaceJournal ==
    /\ pager = "open" /\ Idle
    /\ \E j \in JournalFiles \ {journalFile} : journalFile' = j
    /\ ret' = IdleRet
    /\ UNCHANGED <<fileHdr, fileData, pager, db>>

InitOpen ==
    /\ fileHdr \in OpenHeaders
    /\ fileData \in UNION {Files(n) : n \in 0..MaxBlocks}
    /\ journalFile \in JournalFiles
    /\ pager = "none"
    /\ db = NoDatabase
    /\ ret = IdleRet

NextOpen ==
    \/ OpenFile
    \/ OpenNoJournal
    \/ RLock
    \/ \E page \in 0..MaxPage : CallOpenPage(page)
    \/ CallMaster
    \/ \E root \in 0..MaxPage : WithoutRowid(root)
    \/ \E page \in 0..MaxPage : OpenPageAgain(page)
    \/ ReplaceJournal
    \/ Return

SpecOpen == InitOpen /\ [][NextOpen]_vars

\* opening, with the failures of newFilePager, and closing
NextClose ==
    \/ OpenFile
    \/ \E openErr \in OpenErrors, mmapErr \in MmapErrors :
           OpenFileNoPager(openErr, mmapErr)
    \/ \E page \in 0..MaxPage : CallOpenPage(page)
    \/ ReplaceJournal
    \/ Close
    \/ Return

SpecClose == InitOpen /\ [][NextClose]_vars

\* parseHeader, and OpenFile, on every header of HeaderInputs
InitHeader ==
    /\ fileHdr \in HeaderInputs
    /\ fileData = <<TableLeaf(<<>>)>>
    /\ journalFile = NoJournal
    /\ pager = "none"
    /\ db = NoDatabase
    /\ ret = IdleRet

NextHeader ==
    \/ CallParseHeader
    \/ OpenFile
    \/ Return

SpecHeader == InitHeader /\ [][NextHeader]_vars

\* Table and Index on every sqlite_master table of at most MaxRows rows
InitMaster ==
    /\ fileHdr = GoodHeader(0, 0)
    /\ fileData \in {<<TableLeaf(Numbered(q))>> : q \in RowSeqs(MaxRows)}
                      \cup {<<IndexLeaf(<<>>)>>, <<Garbage>>}
    /\ journalFile = NoJournal
    /\ pager = "none"
    /\ db = NoDatabase
    /\ ret = IdleRet

NextMaster ==
    \/ OpenFile
    \/ RLock
    \/ CallMaster
    \/ \E name \in Names : Table(name)
    \/ \E name \in Names : Index(name)
    \/ Return

SpecMaster == InitMaster /\ [][NextMaster]_vars

\* the scans of quiescent files holding a rowid table or an index at page 2
InitScan ==
    /\ fileHdr = GoodHeader(0, 0)
    /\ fileData \in LeafTableFiles \cup TreeTableFiles \cup BrokenTreeFiles
                      \cup IndexFiles
    /\ journalFile = NoJournal
    /\ pager = "none"
    /\ db = NoDatabase
    /\ ret = IdleRet

NextScan ==
    \/ OpenFile
    \/ \E root \in {2, 3}, stopAt \in 0..MaxKey : ScanUntil(root, stopAt)
    \/ \E root \in {2, 3}, rowid \in 0..(MaxKey + 1) : Rowid(root, rowid)
    \/ \E stopAt \in 0..MaxKey : WithoutRowidScan(2, stopAt)
    \/ \E stopAt \in 0..MaxKey : IndexScan(2, stopAt)
    \/ \E key \in SeekKeys, stopAt \in 0..MaxKey :
           WithoutRowidScanMin(2, key, stopAt)
    \/ \E key \in SeekKeys, stopAt \in 0..MaxKey : ScanMin(2, key, stopAt)
    \/ \E key \in SeekKeys \cup UnorderedKeys, stopAt \in 0..MaxKey :
           ScanEq(2, key, stopAt)
    \/ \E key \in SeekKeys : WithoutRowidPK(2, key)
    \/ Return

SpecScan == InitScan /\ [][NextScan]_vars

(***************************************************************************)
(* Properties                                                              *)
(***************************************************************************)
\* the calls that go through openPage or master
Traversals == {"openPage", "master", "masterAgain", "Table", "Index", "Scan"}

\* the call consulted a cache or the pager, or handed out a page or a
\* sqlite_master result
Accessed == ret.src # "none" \/ ret.reads # <<>> \/ ret.p # <<>>

\* C1: no page and no sqlite_master result, cached or freshly read, is handed
\* out while dirty is set: a call that found dirty set reaches the caches and
\* the pager only after a resolveDirty that read the header, stored what it
\* parsed and cleared dirty.
C1_NoAccessWhileDirty ==
    ret.op \in Traversals =>
        /\ ret.dirtyAt \in {<<>>, <<FALSE>>}
        /\ Accessed =>
               /\ ret.dirtyAt = <<FALSE>>
               /\ ~db.dirty
               /\ ret.rd.err = "nil"
               /\ ret.rd.ran =>
                      /\ ret.rd.hdrRead
                      /\ ~ret.rd.dirtyAfter
                      /\ ret.rd.new = <<parseHeader(fileHdr).h>>
                      /\ db.header = ret.rd.new

\* a cached page handed out by a call that found dirty set
C1_Witness ==
    /\ ret.op = "openPage"
    /\ ret.rd.ran
    /\ ret.src = "cache"
    /\ ret.p # <<>>

\* the parsed change_counter differs from the stored one
CounterChanged(rd) ==
    rd.prev # <<>> /\ rd.prev[1].ChangeCounter # rd.new[1].ChangeCounter

\* the parsed schema_cookie differs from the stored one
CookieChanged(rd) ==
    rd.prev # <<>> /\ rd.prev[1].SchemaCookie # rd.new[1].SchemaCookie

\* resolveDirty found dirty set and succeeded
Resolved == ret.rd.ran /\ ret.rd.err = "nil"

\* C2: a successful resolveDirty empties the page cache exactly when a previous
\* header exists and the parsed change_counter differs from it; otherwise the
\* page cache is as it was, whatever else changed in the header.
C2_PageCacheOnCounter ==
    Resolved =>
        ret.rd.cacheAfter =
            IF CounterChanged(ret.rd) THEN <<>> ELSE ret.rd.cacheBefore

\* a resolveDirty that emptied a page cache holding pages
C2_Witness ==
    /\ Resolved
    /\ CounterChanged(ret.rd)
    /\ ret.rd.cacheBefore # <<>>
    /\ ret.rd.cacheAfter = <<>>

\* C3: a successful resolveDirty drops the cached sqlite_master result exactly
\* when a previous header exists and the parsed schema_cookie differs from it;
\* and master() returns the result that is cached after resolveDirty without
\* asking the pager for any page.
C3_MasterCacheOnCookie ==
    /\ Resolved =>
           ret.rd.objAfter =
               IF CookieChanged(ret.rd) THEN <<>> ELSE ret.rd.objBefore
    /\ ret.op = "master" /\ ret.rd.err = "nil" /\ ret.rd.objAfter # <<>> =>
           /\ ret.src = "objectCache"
           /\ ret.reads = <<>>
           /\ ret.objects = ret.rd.objAfter[1].objects
           /\ ret.err = ret.rd.objAfter[1].err

\* master() served from the cache after a change of the change_counter alone
C3_Witness ==
    /\ ret.op = "master"
    /\ Resolved
    /\ CounterChanged(ret.rd)
    /\ ~CookieChanged(ret.rd)
    /\ ret.src = "objectCache"

\* the page an openPage call was asked for was in the cache when it was called
WasCached == CacheIndex(ret.rd.cacheBefore, ret.arg) # 0

\* what decoding the file's bytes of the page yields now
FreshPage ==
    newBtree(filePager_page(ret.arg, db.header[1].PageSize).buf, ret.arg = 1).p

\* C4 as stated: once the file's header carries a change_counter other than
\* the stored one, openPage of a cached page returns the page re-read from
\* the pager.
C4_RereadAfterCounterChange ==
    /\ ret.op = "openPage"
    /\ ret.err = "nil"
    /\ WasCached
    /\ ret.rd.prev # <<>>
    /\ parseHeader(fileHdr).err = "nil"
    /\ fileHdr.ChangeCounter # ret.rd.prev[1].ChangeCounter
    => ret.src = "pager" /\ ret.reads = <<ret.arg>>

\* C4: when openPage finds dirty set (RLock was called since the last
\* resolve) and resolveDirty succeeds on a header whose change_counter differs
\* from the stored one, the page is not taken from the cache: a successful
\* openPage asked the pager for it and returns the file's bytes decoded.
C4_RereadWhenDirty ==
    ret.op = "openPage" /\ Resolved /\ CounterChanged(ret.rd) =>
        /\ ret.src # "cache"
        /\ ret.err = "nil" =>
               /\ ret.src = "pager"
               /\ ret.reads = <<ret.arg>>
               /\ ret.p = FreshPage

\* a cached page read again after RLock and a new change_counter, with other
\* contents than the cached copy
C4_Witness ==
    /\ ret.op = "openPage"
    /\ Resolved
    /\ CounterChanged(ret.rd)
    /\ WasCached
    /\ ret.src = "pager"
    /\ ret.p # <<ret.rd.cacheBefore[CacheIndex(ret.rd.cacheBefore, ret.arg)].p>>

\* C5: a resolveDirty that finds dirty set, a journal path, a hot sidecar and
\* no reserved lock returns the hot-journal error before the pager is asked for
\* the header, whatever the header holds; this pager never reports a lock.
C5_HotJournalRejected ==
    /\ filePager_CheckReservedLock = [locked |-> FALSE, err |-> "nil"]
    /\ /\ ret.rd.ran
       /\ db.journal # ""
       /\ validJournal(journalFile) = [hot |-> TRUE, err |-> "nil"]
       => /\ ret.rd.err = "ErrHotJournal"
          /\ ret.err = "ErrHotJournal"
          /\ ~ret.rd.hdrRead
          /\ db.dirty

\* OpenFile answering hot-journal on a file whose header is not valid either
C5_Witness ==
    /\ ret.op = "OpenFile"
    /\ ret.err = "ErrHotJournal"
    /\ journalFile = HotJournal
    /\ parseHeader(fileHdr).err # "nil"

\* the page sizes there are: the powers of two from 512 to 65536
PageSizes == {512, 1024, 2048, 4096, 8192, 16384, 32768, 65536}

\* the page size a raw field stands for
SizeOfRaw(raw) == IF raw = 1 THEN 65536 ELSE raw

\* the checks of a header in the order stated, each with the error it gives
HeaderChecks(hs) ==
    <<[bad |-> hs.Magic # headerMagic, err |-> "ErrInvalidMagic"],
      [bad |-> SizeOfRaw(hs.PageSize) \notin PageSizes,
       err |-> "ErrInvalidPageSize"],
      [bad |-> hs.ReadVersion # 1,
       err |-> IF hs.ReadVersion = 2 THEN "ErrWAL" ELSE "ErrIncompatible"],
      [bad |-> hs.ReservedSpace # 0, err |-> "ErrReservedSpace"],
      [bad |-> <<hs.MaxFraction, hs.MinFraction, hs.LeafFraction>>
                   # <<64, 32, 32>>,
       err |-> "ErrIncompatible"],
      [bad |-> hs.SchemaFormat \notin {2, 3, 4}, err |-> "ErrIncompatible"],
      [bad |-> hs.TextEncoding # 1,
       err |-> IF hs.TextEncoding \in {2, 3} THEN "ErrEncoding"
               ELSE "ErrIncompatible"],
      [bad |-> hs.ReservedForExpansion # ZeroBytes, err |-> "ErrIncompatible"]>>

\* the error of the first failing check, "nil" when none fails
FirstFailure(checks) ==
    IF \E i \in 1..Len(checks) : checks[i].bad
    THEN checks[CHOOSE i \in 1..Len(checks) :
                    checks[i].bad /\ \A k \in 1..(i - 1) : ~checks[k].bad].err
    ELSE "nil"

\* C6: parseHeader returns the error of the first failing check in the order
\* magic, page size, read version, reserved space, page fractions, schema
\* format, text encoding, reserved bytes, and accepts a header that passes all.
C6_ChecksInOrder ==
    ret.op = "parseHeader" => ret.err = FirstFailure(HeaderChecks(fileHdr))

\* a header failing three checks, answered with the error of the first
C6_Witness ==
    /\ ret.op = "parseHeader"
    /\ fileHdr.ReadVersion = 2
    /\ fileHdr.ReservedSpace # 0
    /\ fileHdr.TextEncoding = 2
    /\ ret.err = "ErrWAL"

\* C7: raw 1 is read as 65536; parseHeader succeeds only with a page size that
\* is a power of two in [512, 65536], succeeds with each of them on a header
\* that is good otherwise, and answers invalid-page-size to every other size
\* once the magic is right; so a stored Header has such a page size.
C7_PageSize ==
    /\ ret.op = "parseHeader" =>
           /\ ret.err = "nil" =>
                  /\ SizeOfRaw(fileHdr.PageSize) \in PageSizes
                  /\ ret.h[1].PageSize = SizeOfRaw(fileHdr.PageSize)
           /\ /\ fileHdr = [GoodHeader(1, 1) EXCEPT !.PageSize = fileHdr.PageSize]
              /\ SizeOfRaw(fileHdr.PageSize) \in PageSizes
              => ret.err = "nil"
           /\ /\ fileHdr.Magic = headerMagic
              /\ SizeOfRaw(fileHdr.PageSize) \notin PageSizes
              => ret.err = "ErrInvalidPageSize"
    /\ db.header # <<>> => db.header[1].PageSize \in PageSizes

\* the raw value 1 parsed, on a database that stores the page size 65536
C7_Witness ==
    /\ ret.op = "parseHeader"
    /\ fileHdr.PageSize = 1
    /\ ret.err = "nil"
    /\ ret.h[1].PageSize = 65536
    /\ db.header # <<>>
    /\ db.header[1].PageSize = 65536

\* C8 as stated: when master() fails, master() called again with a header that
\* resolves and an unchanged schema_cookie returns the same error and the pager
\* is not asked for page 1.
C8_AnyFailureRepeats ==
    /\ ret.op = "masterAgain"
    /\ ret.first[1].err # "nil"
    /\ ret.rd.err = "nil"
    /\ ~(ret.rd.ran /\ CookieChanged(ret.rd))
    => ret.err = ret.first[1].err /\ ret.reads = <<>>

\* C8: an error of the iteration over the rows of page 1 is stored in the
\* master cache with the objects read so far, and a master() call whose
\* resolveDirty succeeds and leaves a cached result returns that result's
\* error without asking the pager for a page; errors of resolveDirty and of
\* opening page 1 are returned without being stored.
C8_IterErrorCached ==
    ret.op \in {"master", "masterAgain"} =>
        /\ ret.src = "iter" =>
               db.objectCache = <<[objects |-> ret.objects, err |-> ret.err]>>
        /\ ret.src = "none" => db.objectCache = ret.rd.objAfter
        /\ ret.rd.err = "nil" /\ ret.rd.objAfter # <<>> =>
               /\ ret.src = "objectCache"
               /\ ret.err = ret.rd.objAfter[1].err
               /\ ret.reads = <<>>
        /\ /\ ret.op = "masterAgain"
           /\ ret.first[1].src = "iter"
           /\ ret.first[1].err # "nil"
           /\ ret.rd.err = "nil"
           /\ ~(ret.rd.ran /\ CookieChanged(ret.rd))
           => /\ ret.err = ret.first[1].err
              /\ ret.objects = ret.first[1].objects
              /\ ret.src = "objectCache"
              /\ ret.reads = <<>>

\* a row error returned a second time from the cache, after an RLock
C8_Witness ==
    /\ ret.op = "masterAgain"
    /\ ret.first[1].src = "iter"
    /\ ret.first[1].err = "ErrInvalidDef"
    /\ ret.rd.ran
    /\ ret.err = "ErrInvalidDef"
    /\ ret.src = "objectCache"

\* C9: an openPage that fails after resolveDirty (page number, read or decode
\* error) leaves the page cache as it was, with no entry for the page; and an
\* openPage that finds no entry for a page asks the pager for its bytes.
C9_FailedPageNotCached ==
    ret.op = "openPage" /\ ret.rd.err = "nil" =>
        /\ ret.err # "nil" =>
               /\ CacheIndex(db.btreeCache, ret.arg) = 0
               /\ db.btreeCache = ret.rd.cacheAfter
        /\ CacheIndex(ret.rd.cacheAfter, ret.arg) = 0 /\ ret.arg >= 1 =>
               ret.reads = <<ret.arg>>

\* a page whose decoding failed: read from the pager and not cached
C9_Witness ==
    /\ ret.op = "openPage"
    /\ ret.err = "ErrCorrupted"
    /\ ret.reads = <<ret.arg>>
    /\ CacheIndex(db.btreeCache, ret.arg) = 0

\* the rows of page 1 as the file holds them
FileRows == fileData[1].cells

\* a row of the shape master() accepts
WellFormed(c) ==
    /\ c.ovf = "nil"
    /\ c.ok
    /\ Len(c.e) = 5
    /\ \A k \in {1, 2, 3, 5} : c.e[k].t = "string"
    /\ c.e[4].t = "int64"

\* the rows of the given type and name
Matches(typ, name) ==
    {i \in 1..Len(FileRows) : FileRows[i].e[1].s = typ /\ FileRows[i].e[2].s = name}

Least(S) == CHOOSE i \in S : \A k \in S : i <= k

\* what Table (typ "table") and Index (typ "index") are to return on the file
LookupAsStated(typ, notFound) ==
    IF fileData[1].flag # 13 \/ \E i \in 1..Len(FileRows) : ~WellFormed(FileRows[i])
    THEN /\ ret.err \notin {"nil", "ErrNoSuchTable", "ErrNoSuchIndex"}
         /\ ret.handle = <<>>
    ELSE IF Matches(typ, ret.name) = {}
    THEN ret.err = notFound /\ ret.handle = <<>>
    ELSE /\ ret.err = "nil"
         /\ ret.handle =
                <<[root |-> FileRows[Least(Matches(typ, ret.name))].e[4].n,
                   sql |-> FileRows[Least(Matches(typ, ret.name))].e[5].s]>>

\* C10: Table(name) returns the root page and SQL of the first row of type
\* "table" with that name, no-such-table exactly when master() succeeded and
\* there is no such row, and master()'s error with no handle when it failed;
\* Index(name) does the same with "index" and no-such-index.
C10_TableAndIndex ==
    /\ ret.op = "Table" => LookupAsStated("table", "ErrNoSuchTable")
    /\ ret.op = "Index" => LookupAsStated("index", "ErrNoSuchIndex")

\* Table asked for the name of an index
C10_Witness ==
    /\ ret.op = "Table"
    /\ ret.err = "ErrNoSuchTable"
    /\ \E i \in 1..Len(FileRows) :
           FileRows[i].e[1].s = "index" /\ FileRows[i].e[2].s = ret.name

\* the shape of a sqlite_master row: five values, text at the first, second,
\* third and fifth place and an integer at the fourth
Shaped(e) ==
    /\ Len(e) = 5
    /\ \A k \in {1, 2, 3, 5} : e[k].t = "string"
    /\ e[4].t = "int64"

\* the rows of page 1 that are not accepted
BadAt == {i \in 1..Len(FileRows) : ~WellFormed(FileRows[i])}

\* the number of rows before the first that is not accepted
Accepted == IF BadAt = {} THEN Len(FileRows) ELSE Least(BadAt) - 1

\* the object a well-formed row stands for
ObjectOf(c) ==
    [typ |-> c.e[1].s, name |-> c.e[2].s, tblName |-> c.e[3].s,
     rootPage |-> c.e[4].n, sql |-> c.e[5].s]

\* C11: master() turns the rows of page 1 into objects up to the first row
\* that is not five values of types text, text, text, integer, text (an empty
\* sql text is accepted); a decoded row of another shape ends the read with
\* invalid-definition, and no row after it is processed.
C11_RowShape ==
    ret.op = "master" /\ fileData[1].flag = 13 =>
        /\ ret.objects = [i \in 1..Accepted |-> ObjectOf(FileRows[i])]
        /\ BadAt = {} => ret.err = "nil"
        /\ BadAt # {} =>
               LET c == FileRows[Least(BadAt)]
               IN  IF c.ovf = "nil" /\ c.ok
                   THEN ~Shaped(c.e) /\ ret.err = "ErrInvalidDef"
                   ELSE ret.err \notin {"nil", "ErrInvalidDef"}
        /\ \A i \in 1..Accepted : Shaped(FileRows[i].e)

\* a row of six values before a well-formed row: nothing is read
C11_Witness ==
    /\ ret.op = "master"
    /\ ret.err = "ErrInvalidDef"
    /\ Len(FileRows) = 2
    /\ Len(FileRows[1].e) = 6
    /\ WellFormed(FileRows[2])
    /\ ret.objects = <<>>

\* an index row with an empty sql text, accepted
C11_EmptySql ==
    /\ ret.op = "master"
    /\ ret.err = "nil"
    /\ \E i \in 1..Len(ret.objects) : ret.objects[i].sql = ""

\* the pages below an interior page, left to right
KidsOf(pg) == [i \in 1..Len(pg.cells) |-> pg.cells[i].left] \o <<pg.right>>

\* page root is the root of a table b-tree of one or two levels
ValidTable(root) ==
    /\ root \in 1..Len(fileData)
    /\ \/ fileData[root].flag = 13
       \/ /\ fileData[root].flag = 5
          /\ \A i \in 1..Len(KidsOf(fileData[root])) :
                 /\ KidsOf(fileData[root])[i] \in 1..Len(fileData)
                 /\ fileData[KidsOf(fileData[root])[i]].flag = 13

RECURSIVE CellsOfPages(_, _)
CellsOfPages(kids, i) ==
    IF i > Len(kids) THEN <<>>
    ELSE fileData[kids[i]].cells \o CellsOfPages(kids, i + 1)

\* the leaf cells of the table at root as the file holds them, left to right
TableCells(root) ==
    IF fileData[root].flag = 13 THEN fileData[root].cells
    ELSE CellsOfPages(KidsOf(fileData[root]), 1)

Decodes(c) == c.ovf = "nil" /\ c.ok

\* the rowids of the table at root
RowidsOf(root) == {TableCells(root)[i].rowid : i \in 1..Len(TableCells(root))}

\* what the last scan's user callback was called with
Calls == ret.out[1].calls

\* C12: Table.Scan with a callback that never stops, on a rowid table whose
\* rows decode, returns no error after calling the callback with the rowids of
\* the table in ascending order, each once with its record, and no other.
C12_ScanAllRows ==
    /\ ret.op = "Scan"
    /\ ret.out[1].stopAt = 0
    /\ ret.rd.err = "nil"
    /\ ValidTable(ret.arg)
    /\ \A i \in 1..Len(TableCells(ret.arg)) : Decodes(TableCells(ret.arg)[i])
    => /\ ret.err = "nil"
       /\ [i \in 1..Len(Calls) |-> Calls[i].rowid] = Ascending(RowidsOf(ret.arg))
       /\ Calls = [i \in 1..Len(TableCells(ret.arg)) |->
                      [rowid |-> TableCells(ret.arg)[i].rowid,
                       e |-> TableCells(ret.arg)[i].e]]

\* a table of two levels with rows on both leaves, scanned
C12_Witness ==
    /\ ret.op = "Scan"
    /\ ret.out[1].stopAt = 0
    /\ ret.err = "nil"
    /\ fileData[ret.arg].flag = 5
    /\ [i \in 1..Len(Calls) |-> Calls[i].rowid] = <<1, 2, 3>>

\* the records of the index leaf at root, when all its cells decode
IndexRows(root) == [i \in 1..Len(fileData[root].cells) |-> fileData[root].cells[i].e]

ValidIndex(root) ==
    /\ root \in 1..Len(fileData)
    /\ fileData[root].flag = 10
    /\ \A i \in 1..Len(fileData[root].cells) : Decodes(fileData[root].cells[i])

\* the records of q that are not below key
AtLeast(q, key) == SelectSeq(q, LAMBDA r : Cmp(r, key).res >= 0)

\* the rowids of the table at root that are not below id
RowidsFrom(root, id) == {r \in RowidsOf(root) : r >= id}

ScanOps ==
    {"Scan", "WithoutRowidScan", "WithoutRowidScanMin", "IndexScan", "ScanMin",
     "ScanEq"}

\* C14: in each of the six scans the user callback is not called again after
\* it answered true, and the scan then returns without error.
C14_StopIsHonoured ==
    ret.op \in ScanOps /\ ret.out[1].stopAt # 0 =>
        /\ Len(Calls) <= ret.out[1].stopAt
        /\ Len(Calls) = ret.out[1].stopAt => ret.err = "nil"

\* a scan stopped at its first row although the next cell does not decode
C14_Witness ==
    /\ ret.op = "Scan"
    /\ ret.out[1].stopAt = 1
    /\ Len(Calls) = 1
    /\ ret.err = "nil"
    /\ ValidTable(ret.arg)
    /\ Len(TableCells(ret.arg)) >= 2
    /\ ~Decodes(TableCells(ret.arg)[2])

\* the cells the last scan iterates over
ScannedCells ==
    IF ret.op = "Scan" THEN TableCells(ret.arg) ELSE fileData[ret.arg].cells

\* the positions of the cells that do not assemble or decode
Undecodable(cells) == {i \in 1..Len(cells) : ~Decodes(cells[i])}

\* the error of assembling and decoding a cell
DecodeError(c) == IF c.ovf # "nil" THEN c.ovf ELSE "ErrCorrupted"

\* the last scan reached the first cell that does not decode
ReachedBadCell ==
    /\ ret.op \in {"Scan", "WithoutRowidScan", "IndexScan"}
    /\ ret.rd.err = "nil"
    /\ IF ret.op = "Scan" THEN ValidTable(ret.arg)
       ELSE ret.arg \in 1..Len(fileData) /\ fileData[ret.arg].flag = 10
    /\ Undecodable(ScannedCells) # {}
    /\ \/ ret.out[1].stopAt = 0
       \/ ret.out[1].stopAt >= Least(Undecodable(ScannedCells))

\* C15: a scan that reaches a cell whose overflow chain or record does not
\* decode returns that cell's error; the user callback was called for the
\* cells before it, in order, and for no other.
C15_DecodeErrorAborts ==
    ReachedBadCell =>
        /\ ret.err = DecodeError(ScannedCells[Least(Undecodable(ScannedCells))])
        /\ Calls = [i \in 1..(Least(Undecodable(ScannedCells)) - 1) |->
                       [rowid |-> ScannedCells[i].rowid, e |-> ScannedCells[i].e]]

\* a cell that does not decode between two rows
C15_Witness ==
    /\ ReachedBadCell
    /\ ret.op = "Scan"
    /\ Len(ScannedCells) = 3
    /\ Least(Undecodable(ScannedCells)) = 2
    /\ Decodes(ScannedCells[3])
    /\ Len(Calls) = 1
    /\ ret.err # "nil"

\* the rows of the WITHOUT ROWID table at root whose primary key, the first
\* column, is that of key
RowsWithKey(root, key) ==
    {i \in 1..Len(IndexRows(root)) : IndexRows(root)[i][1] = key[1]}

\* C16: WithoutRowidPK with a key holding the primary-key column alone returns
\* the stored row with that primary key, and nil without error when there is
\* none.
C16_PKLookup ==
    /\ ret.op = "WithoutRowidPK"
    /\ ret.rd.err = "nil"
    /\ ValidIndex(ret.arg)
    /\ Len(ret.out[1].key) = 1
    /\ Cardinality(RowsWithKey(ret.arg, ret.out[1].key)) <= 1
    => /\ ret.err = "nil"
       /\ ret.out[1].rec =
              IF RowsWithKey(ret.arg, ret.out[1].key) = {} THEN <<>>
              ELSE <<IndexRows(ret.arg)[
                         Least(RowsWithKey(ret.arg, ret.out[1].key))]>>

\* the cell of the table at root with the given rowid
CellWithRowid(root, id) ==
    TableCells(root)[CHOOSE i \in 1..Len(TableCells(root)) :
                         TableCells(root)[i].rowid = id]

\* C17: Table.Rowid(id) returns the record of the row with rowid id when there
\* is one, and nil without error when there is none; its callback is called
\* at most once.
C17_RowidLookup ==
    ret.op = "Rowid" =>
        /\ ret.out[1].n <= 1
        /\ ret.rd.err = "nil" /\ ValidTable(ret.arg) =>
               IF ret.out[1].key[1] \notin RowidsOf(ret.arg)
               THEN ret.err = "nil" /\ ret.out[1].rec = <<>>
               ELSE Decodes(CellWithRowid(ret.arg, ret.out[1].key[1])) =>
                        /\ ret.err = "nil"
                        /\ ret.out[1].rec =
                               <<CellWithRowid(ret.arg, ret.out[1].key[1]).e>>

\* a rowid between two rows of a table of two levels: the callback is called
\* once, on the row above, and nothing is returned
C17_Witness ==
    /\ ret.op = "Rowid"
    /\ ValidTable(ret.arg)
    /\ fileData[ret.arg].flag = 5
    /\ RowidsOf(ret.arg) = {1, 3}
    /\ ret.out[1].key = <<2>>
    /\ ret.out[1].n = 1
    /\ ret.out[1].rec = <<>>
    /\ ret.err = "nil"

\* a call that found dirty set ran resolveDirty before anything else: on
\* success the header of the file was read, parsed and stored and both caches
\* were cleared as its deltas ask; on failure the call returned that error
\* without consulting a cache or the pager
Revalidated(r) ==
    /\ r.rd.ran
    /\ r.rd.err = "nil" =>
           /\ r.rd.hdrRead
           /\ r.rd.new = <<parseHeader(fileHdr).h>>
           /\ ~r.rd.dirtyAfter
           /\ r.rd.cacheAfter =
                  IF CounterChanged(r.rd) THEN <<>> ELSE r.rd.cacheBefore
           /\ r.rd.objAfter =
                  IF CookieChanged(r.rd) THEN <<>> ELSE r.rd.objBefore
    /\ r.rd.err # "nil" =>
           /\ r.err = r.rd.err
           /\ r.src = "none" /\ r.reads = <<>> /\ r.p = <<>>

\* the steps that are one top-level operation (masterAgain is two)
SingleCalls == Traversals \ {"masterAgain"}

\* C18: RLock sets dirty and changes nothing else; RUnlock changes nothing of
\* the Database, dirty included; so dirty stays set from an RLock until the
\* next top-level operation, and that operation re-reads and re-validates the
\* header, applying the cache invalidation, before it uses a cache.
C18_RLockDirties ==
    [][/\ Idle /\ ret'.op = "RLock" => db' = [db EXCEPT !.dirty = TRUE]
       /\ Idle /\ ret'.op = "RUnlock" => db' = db
       /\ ret.op \in {"RLock", "RUnlock"} => db' = db
       /\ Idle /\ db.dirty /\ ret'.op \in SingleCalls => Revalidated(ret')
       /\ Idle /\ db.dirty /\ ret'.op \notin Traversals \cup {"none"} =>
              db'.dirty
       /\ Idle /\ ret'.op = "none" => db' = db]_vars

\* a call after an RLock on a Database that had a header: the header was read
\* again, its change_counter had moved and the page cache was emptied
C18_Witness ==
    /\ ret.op \in SingleCalls
    /\ Resolved
    /\ ret.rd.prev # <<>>
    /\ CounterChanged(ret.rd)
    /\ ret.rd.cacheBefore # <<>>
    /\ ret.rd.cacheAfter = <<>>

\* the region of page id, in blocks: [first, last]
PageRegion(id) ==
    [first |-> (id - 1) * (db.header[1].PageSize \div BlockSize) + 1,
     last |-> id * (db.header[1].PageSize \div BlockSize)]

\* a page(id) call that returned, and the region it asked for passes the end
\* of the file
PastTheEnd == ret.op = "page" /\ ret.arg >= 1 /\ PageRegion(ret.arg).last > Len(fileData)

\* C19: db.page(id) fails with the invalid-page error for id < 1 without asking
\* the pager; for id >= 1 it returns the page_size bytes at (id-1)*page_size,
\* and fails with the file-truncated error when that region passes the end of
\* the mapping.
C19_PageRead ==
    ret.op = "page" =>
        /\ ret.arg < 1 =>
               ret.err = "invalid page number" /\ ~ret.out[1].read
        /\ ret.arg >= 1 => ret.out[1].read
        /\ ret.arg >= 1 /\ ~PastTheEnd =>
               /\ ret.err = "nil"
               /\ ret.out[1].buf =
                      SubSeq(fileData, PageRegion(ret.arg).first,
                             PageRegion(ret.arg).last)
        /\ PastTheEnd => ret.err = "ErrFileTruncated"

\* what the pager answers for a region that passes the end of the file
C19_PastTheEndError ==
    PastTheEnd =>
        ret.err = IF PageRegion(ret.arg).first - 1 > Len(fileData)
                  THEN "mmap: invalid ReadAt offset" ELSE "EOF"

\* the file holds page root whole and its page-type byte is an index b-tree's
IndexRootInFile(root) ==
    /\ db.header # <<>>
    /\ root >= 1
    /\ root * (db.header[1].PageSize \div BlockSize) <= Len(fileData)
    /\ fileData[(root - 1) * (db.header[1].PageSize \div BlockSize) + 1].flag
           \in {10, 2}

\* C20: a table handle is classified WITHOUT ROWID exactly when opening its
\* root as an index b-tree succeeds: the header re-validation passed and the
\* root is a readable page holding an index b-tree. Every failure of the open
\* (a root that is a table page, a page that cannot be read or decoded, a
\* header re-validation error such as a hot journal) classifies it as a rowid
\* table.
C20_WithoutRowidIsIndexRoot ==
    ret.op = "withoutRowid" =>
        /\ ret.out[1].is <=> ret.err = "nil"
        /\ ret.out[1].is <=> (ret.rd.err = "nil" /\ IndexRootInFile(ret.arg))

\* a root holding an index b-tree classified as a rowid table because the
\* header re-validation met a hot journal
C20_Witness ==
    /\ ret.op = "withoutRowid"
    /\ ~ret.out[1].is
    /\ ret.rd.err = "ErrHotJournal"
    /\ IndexRootInFile(ret.arg)

\* the other classifications: an index root accepted, a table root and an
\* unreadable page refused
C20_Kinds ==
    /\ ret.op = "withoutRowid"
    /\ \/ ret.out[1].is
       \/ ret.err = "found a table, expected an index"
       \/ ret.err = "EOF"

\* the type name in lower case letters
lowerLetter(c) ==
    CASE c = "I" -> "i" [] c = "N" -> "n" [] c = "T" -> "t" [] c = "E" -> "e"
      [] c = "G" -> "g" [] c = "R" -> "r" [] c = "S" -> "s" [] c = "X" -> "x"
      [] OTHER -> c

IsIntegerName(typ) ==
    /\ Len(typ) = 7
    /\ \A i \in 1..7 :
           lowerLetter(typ[i]) = <<"i", "n", "t", "e", "g", "e", "r">>[i]

\* the answers the tests want for the arguments they give
Wanted ==
    {IsRowidCases[i] : i \in 1..Len(IsRowidCases)} \cup {SchemaRowid2Case}

C21_Refused ==
    /\ ret.op = "isRowid"
    /\ ~ret.out[1].is
    /\ \/ ret.out[1].typ = <<"I", "n", "t">>
       \/ ~ret.out[1].flag /\ IsIntegerName(ret.out[1].typ)

\* the records of q the seek does not pass over: not below key, or not
\* comparable with it
NotBelow(q, key) ==
    SelectSeq(q, LAMBDA r : ~(Cmp(r, key).err = "nil" /\ Cmp(r, key).res < 0))

\* the place of the first record of q that is greater than key, Len(q) + 1
\* when there is none
FirstGreater(q, key) ==
    IF \E i \in 1..Len(q) : Cmp(q[i], key).res > 0
    THEN CHOOSE i \in 1..Len(q) :
             /\ Cmp(q[i], key).res > 0
             /\ \A j \in 1..(i - 1) : Cmp(q[j], key).res <= 0
    ELSE Len(q) + 1

\* the first k elements of q; all of them when k is 0
UpTo(q, k) == IF k = 0 \/ k >= Len(q) THEN q ELSE SubSeq(q, 1, k)

\* an Index.ScanEq that returned, on an index leaf whose cells decode
ScanEqDone ==
    /\ ret.op = "ScanEq"
    /\ ret.rd.err = "nil"
    /\ ValidIndex(ret.arg)

\* C22: Index.ScanEq(key, cb) passes over the records below key, gives cb the
\* records from there on as long as Cmp(rec, key) <= 0 and stops, without
\* calling cb, at the first record with Cmp(rec, key) > 0: cb never gets a
\* record greater than key; an error of Cmp ends the scan, which returns it.
C22_ScanEq ==
    ScanEqDone =>
        LET key == ret.out[1].key
            rest == NotBelow(IndexRows(ret.arg), key)
        IN  /\ \A i \in 1..Len(Calls) :
                   /\ Cmp(Calls[i].e, key).err = "nil"
                   /\ Cmp(Calls[i].e, key).res <= 0
            /\ IF rest # <<>> /\ Cmp(rest[1], key).err # "nil"
               THEN ret.err = Cmp(rest[1], key).err /\ Calls = <<>>
               ELSE /\ ret.err = "nil"
                    /\ [i \in 1..Len(Calls) |-> Calls[i].e]
                           = UpTo(SubSeq(rest, 1, FirstGreater(rest, key) - 1),
                                  ret.out[1].stopAt)

\* a ScanEq that gave cb the record equal to the key and stopped at the next,
\* greater, record
C22_Witness ==
    /\ ScanEqDone
    /\ ret.out[1].stopAt = 0
    /\ Len(Calls) = 1
    /\ ret.out[1].n = 2
    /\ Len(NotBelow(IndexRows(ret.arg), ret.out[1].key)) >= 2
    /\ Len(IndexRows(ret.arg)) >= 3

\* a ScanEq ended by an error of Cmp on the second column, after a record
\* below the key was passed over
C22_CmpError ==
    /\ ScanEqDone
    /\ ret.err = "cmp: unhandled type"
    /\ Calls = <<>>
    /\ Len(ret.out[1].key) = 2
    /\ Len(IndexRows(ret.arg)) >= 2

\* resolveDirty ran in the call and failed
ResolveFailed(rd) == rd.ran /\ rd.err # "nil"

\* C23: a resolveDirty that fails leaves the Database as it was: dirty stays
\* set, the stored header is the previous one, the page cache and the master
\* cache are not cleared, and the call returns resolveDirty's error; so a call
\* made next, the file and the sidecar being as they were, runs resolveDirty
\* again and fails with the same error, the Database still unchanged.
C23_FailedResolveKeepsState ==
    /\ ResolveFailed(ret.rd) =>
           /\ ret.err = ret.rd.err
           /\ ret.rd.dirtyAfter /\ db.dirty
           /\ db.header = ret.rd.prev
           /\ ret.rd.cacheAfter = ret.rd.cacheBefore
           /\ db.btreeCache = ret.rd.cacheBefore
           /\ ret.rd.objAfter = ret.rd.objBefore
           /\ db.objectCache = ret.rd.objBefore
    /\ ret.op = "openPageAgain" /\ ResolveFailed(ret.first[1].rd) =>
           /\ ResolveFailed(ret.rd)
           /\ ret.rd.err = ret.first[1].rd.err
           /\ ret.err = ret.first[1].err
           /\ db = ret.first[1].db
           /\ ret.rd.prev = ret.first[1].rd.prev
           /\ ret.rd.cacheBefore = ret.first[1].rd.cacheBefore

\* two calls in a row stopped by a hot journal that appeared after pages and
\* a header had been cached: both caches and the header are kept
C23_Witness ==
    /\ ret.op = "openPageAgain"
    /\ ResolveFailed(ret.first[1].rd)
    /\ ret.err = "ErrHotJournal"
    /\ db.dirty
    /\ db.header # <<>>
    /\ db.btreeCache # <<>>

\* the condition gone: a call that succeeds on a Database whose header was
\* never stored, the resolve of OpenFile having failed
C23_Recovered ==
    /\ ret.op = "openPage"
    /\ ret.rd.ran /\ ret.rd.err = "nil"
    /\ ret.rd.prev = <<>>
    /\ ~db.dirty

\* C24: when the first resolveDirty fails, OpenFile still returns a Database,
\* with the error, and the pager is not closed: the file and the mapping stay
\* open until Close is called on that Database. newFilePager, when the mapping
\* fails, closes the file it had opened and returns no pager.
C24_OpenKeepsPager ==
    [][/\ Idle /\ ret'.op = "OpenFile" =>
              /\ db' # NoDatabase
              /\ pager' = "open"
              /\ db'.dirty <=> ret'.err # "nil"
       /\ pager = "open" /\ pager' # "open" =>
              /\ ret'.op = "Close"
              /\ pager' = "closed"
              /\ db' = db
       /\ Idle /\ ret'.op = "newFilePager" =>
              /\ pager' = "none" /\ db' = NoDatabase
              /\ ret'.err # "nil"
              /\ ret'.err = IF ret'.out[1].openErr # "nil"
                            THEN ret'.out[1].openErr ELSE ret'.out[1].mmapErr
              /\ ret'.out[1].f = IF ret'.out[1].openErr # "nil"
                                 THEN "unopened" ELSE "closed"
              /\ ret'.out[1].mm = "unopened"]_vars

\* OpenFile returned a Database and an error, and the pager is open
C24_Witness ==
    /\ ret.op = "OpenFile"
    /\ ret.err # "nil"
    /\ db # NoDatabase
    /\ db.dirty
    /\ pager = "open"

\* the Database of a failed OpenFile closed by its caller
C24_ClosedAfterFailure ==
    /\ ret.op = "Close"
    /\ pager = "closed"
    /\ db.dirty /\ db.header = <<>>

\* the mapping failed: the file was closed and no pager returned
C24_MappingFailed ==
    /\ ret.op = "newFilePager"
    /\ ret.out[1].f = "closed"
    /\ pager = "none"

====
